---------------------------- MODULE Spec2Model ----------------------------
(***************************************************************************)
(* A model of the search -> cleanse -> retry -> scrape pipeline of the     *)
(* scraping API (src/scraping-api).                                        *)
(*                                                                         *)
(* Text is modelled as sequences of atoms.                                 *)
(*  - A URL or a domain is a sequence of atoms, each atom one character    *)
(*    or one run of digits ("17"), or one of the delimiters "https:",      *)
(*    "//", "/".  No denylist entry contains a digit, so a                 *)
(*    substring test on the characters is a contiguous-subsequence test on *)
(*    the atoms.                                                           *)
(*  - A company name or a search title is a sequence of tokens: each token *)
(*    is one character ("A", "B", "|"), one numbered word ("n17") or one   *)
(*    fixed word of the source's patterns:                                 *)
(*       "KK"  = 株式会社 (4 chars)   "KS"  = 公式サイト (5 chars)          *)
(*       "TEN" = 転職   (2 chars)    "SEN" = 10選 (3 chars)                *)
(*       "TOP10" (5 chars)                                                 *)
(*    TokLen gives the number of characters of a token, so the length      *)
(*    tests of the source are made on characters.                          *)
(***************************************************************************)
EXTENDS Integers, Sequences, FiniteSets, TLC

\* bounds of the model
MaxQueries == 2          \* queries of one search_companies call
MaxSearchTarget == 3     \* target_count of one search_companies call

NumCompanies == 11       \* companies of one scrape_companies call
MaxSites == 40           \* numbered sites s1.co.jp .. of the modelled web
MaxTarget == 3           \* the small target_counts of a request: 0..MaxTarget
BufferTarget == 7        \* a target_count below its buffered target
RetryTarget == 70        \* a target_count that allows 7 retries
LargeTarget == 250       \* a target_count that allows 25 retries, 5 when synchronous
RichResults == 10        \* results of the provider's richest page
BatchSize == 5           \* batch_size of a cleanse_companies call on its own
                         \* (50 in the code)
JobTTL == 2              \* _job_ttl in ticks of the clock (24 hours in the code)
MaxClock == 6            \* the clock stops here
MaxJobs == 4             \* create_job calls of a registry
PoolSize == 4            \* queries of the pool of a keyword
MaxRetryRounds == 3      \* retry rounds of a request (max_retries)
MinRetryBatch == 1       \* the smallest batch of retry queries (8 in the code)
FirstRetryBatch == 4     \* the batch of round 0 (20 in the code)
MaxNameLen == 3          \* tokens of a name given to normalize_company_name
MaxBufferInput == 100   \* the largest target_count given to the buffer
CommonPaths == 3         \* entries of COMMON_CONTACT_PATHS (12 in the code)

\* program constants
DefaultMaxPages == 1     \* max_pages_per_query: int = 1
MAX_CONCURRENT == 10     \* scraper.py: MAX_CONCURRENT = 10
MAX_RETRIES == 2         \* LLMCleanser.MAX_RETRIES = 2

VARIABLES
    \* ---- SerperClient.search_companies (one call) ----
    s_pc,            \* "idle" | "query" | "returned"
    queries,         \* the queries of the call (sequence of query ids)
    target_count,    \* the target_count argument
    existing_domains,\* the existing_domains argument (the caller's set)
    found_domains,   \* local found_domains
    companies,       \* local companies (sequence of CompanyData)
    max_pages_per_query, \* the max_pages_per_query argument
    qi,              \* index of the query the outer for-loop is at
    page,            \* the page the inner for-loop is at
    results,         \* the provider's answer to the last request
    search_errors,   \* the (query, page) requests of the call that raised
    \* ---- scrape_companies (one call) ----
    sc_pc,           \* "idle" | "gather" | "returned"
    sc_companies,    \* the companies argument
    task_pc,         \* per task: "created" | "waiting" | "woken" | "fetch" |
                     \*           "pause" | "done"
    sem_value,       \* semaphore._value
    sem_waiters,     \* semaphore._waiters (tasks in FIFO order)
    gathered,        \* the result slots of asyncio.gather, one per task
    results_list,    \* the list scrape_companies returns
    \* ---- LLMCleanser.cleanse_companies (one call, with its caller) ----
    cl_pc,           \* "idle" | "batch" | "returned"
    cl_companies,    \* the companies argument
    cl_i,            \* batch_num: the batch the for-loop is at
    cl_attempt,      \* attempt of _cleanse_batch_with_retry
    cl_all_cleansed, \* local all_cleansed
    cl_failed_batches, \* local failed_batches
    cl_log,          \* per finished batch: did it fail, and the LLM's answer
    ctl_cleansed,    \* the caller's cleansed after the call
    ctl_merged,      \* the caller's all_cleansed after its merge loop
    \* ---- the query pools and the requests that use them ----
    query_pools,     \* _query_pools: per keyword, the QueryPool (its _pool
                     \* and _used) once it is made
    rq_keyword,      \* per request: its search keyword
    rq_round,        \* per request: the rounds that have got their queries
    rq_used,         \* per request: used_queries of _search_with_retry
    rq_done,         \* per request: has its loop ended
    rq_log,          \* per request: the generate_retry_queries calls, with
                     \* the used_queries passed and the queries returned
    \* ---- a function of the program called on its own ----
    \* ---- scrape_company (one call) ----
    co_pc,           \* "idle" | "top" | "contact" | "common" | "about" |
                     \* "returned" | "raised": the page being fetched
    co_page,         \* the top page of the candidate's site
    co_attempt,      \* attempt of the fetch_with_retry call in progress
    co_path,         \* index of the common contact path or about URL
    co_requests,     \* the client.get calls made so far, in order
    co_contact_url,  \* local contact_url
    co_phone,        \* local phone
    co_error,        \* the error of the ScrapeResult returned
    fn_call,         \* the function and its argument
    fn_result,       \* what the calls made so far have returned
    \* ---- the job registry: JobManager ----
    jm_now,          \* the clock: what datetime.now() returns
    jm_jobs,         \* _jobs: the jobs of the registry: id, created_at
                     \* and status
    jm_ids,          \* the number of ids issued so far
    jm_held,         \* created_at of the Job each create_job returned, by
                     \* id: the Jobs the workflows hold
    jm_last,         \* the last call: its name, the now of its sweep, the
                     \* jobs its sweep removed, the id it created, the id
                     \* it updated; an update keeps the sweep of the call
                     \* before it
    \* ---- one request: SearchWorkflow.execute or run_sync_workflow ----
    wf_pc,           \* "idle" | "start" | "existing" | "search" | "cleanse" |
                     \* "scrape" | "save" | "notify" | "end"
    request,         \* mode, openai_api_key set or not, keyword, target_count
    job,             \* the Job of an asynchronous request
    round_num,       \* round_num of _search_with_retry
    all_cleansed,    \* all_cleansed of _search_with_retry
    used_domains,    \* used_domains of _search_with_retry
    used_names,      \* used_names of _search_with_retry
    round_companies, \* companies of the round, before cleansing
    scraped_results, \* what scrape_companies returned
    successful_results, \* the records left after the post-scrape pass
    sink,            \* the calls of gas.save_results: their companies lists
    response,        \* the returns of run_sync_workflow: their results lists
    reply,           \* the other fields of the dict run_sync_workflow returned
    existing_failed, \* did get_existing_domains catch an error
    save_outcome,    \* how the save_results call ended ("none": no call)
    rejected_domains \* history: the domains of the candidates that
                     \* search_companies returned and the cleanser dropped

searchVars == <<s_pc, queries, target_count, existing_domains, found_domains,
                companies, max_pages_per_query, qi, page, results,
                search_errors>>

scrapeVars == <<sc_pc, sc_companies, task_pc, sem_value, sem_waiters,
                gathered, results_list>>

cleanseVars == <<cl_pc, cl_companies, cl_i, cl_attempt, cl_all_cleansed,
                 cl_failed_batches, cl_log, ctl_cleansed, ctl_merged>>

workflowVars == <<wf_pc, request, job, round_num, all_cleansed, used_domains,
                  used_names, round_companies, scraped_results,
                  successful_results,
                  sink, response, reply, existing_failed, save_outcome,
                  rejected_domains>>

jobsVars == <<jm_now, jm_jobs, jm_ids, jm_held, jm_last>>

queryVars == <<query_pools, rq_keyword, rq_round, rq_used, rq_done, rq_log>>

pureVars == <<fn_call, fn_result>>

companyVars == <<co_pc, co_page, co_attempt, co_path, co_requests,
                 co_contact_url, co_phone, co_error>>

vars == <<searchVars, scrapeVars, cleanseVars, jobsVars, queryVars, pureVars,
          companyVars, workflowVars>>

\* what an action of search_companies leaves alone
notSearchVars ==
    <<scrapeVars, cleanseVars, jobsVars, queryVars, pureVars, companyVars,
      workflowVars>>

\* what an action of scrape_companies leaves alone
notScrapeVars ==
    <<searchVars, cleanseVars, jobsVars, queryVars, pureVars, companyVars,
      workflowVars>>

\* what an action of a request leaves alone
notWorkflowVars ==
    <<searchVars, scrapeVars, cleanseVars, jobsVars, queryVars, pureVars,
      companyVars>>

\* what an action of cleanse_companies leaves alone
notCleanseVars ==
    <<searchVars, scrapeVars, jobsVars, queryVars, pureVars, companyVars,
      workflowVars>>

\* what an action of the job registry leaves alone
notJobsVars ==
    <<searchVars, scrapeVars, cleanseVars, queryVars, pureVars, companyVars,
      workflowVars>>

\* what an action of the query pools leaves alone
notQueryVars ==
    <<searchVars, scrapeVars, cleanseVars, jobsVars, pureVars, companyVars,
      workflowVars>>

\* what a function called on its own leaves alone
notPureVars ==
    <<searchVars, scrapeVars, cleanseVars, jobsVars, queryVars, companyVars,
      workflowVars>>

\* what an action of scrape_company leaves alone
notCompanyVars ==
    <<searchVars, scrapeVars, cleanseVars, jobsVars, queryVars, pureVars,
      workflowVars>>

-----------------------------------------------------------------------------
(* Sequences and text helpers *)

\* s[1..n], the Python slice s[:n] for n >= 0
Take(s, n) == SubSeq(s, 1, IF n < Len(s) THEN n ELSE Len(s))

\* Python "p in s" for strings
IsSubstr(p, s) ==
    \E i \in 0..(Len(s) - Len(p)) : SubSeq(s, i + 1, i + Len(p)) = p

\* Python s.endswith(p)
EndsWith(s, p) ==
    Len(p) <= Len(s) /\ SubSeq(s, Len(s) - Len(p) + 1, Len(s)) = p

RECURSIVE SelectSeqR(_, _)
\* the elements of s that are in the set keep, in order
SelectSeqR(s, keep) ==
    IF s = <<>> THEN <<>>
    ELSE IF Head(s) \in keep THEN <<Head(s)>> \o SelectSeqR(Tail(s), keep)
    ELSE SelectSeqR(Tail(s), keep)

RECURSIVE IsSubsequence(_, _)
\* s is obtained from t by deleting elements (order kept)
IsSubsequence(s, t) ==
    IF s = <<>> THEN TRUE
    ELSE IF t = <<>> THEN FALSE
    ELSE IF Head(s) = Head(t) THEN IsSubsequence(Tail(s), Tail(t))
    ELSE IsSubsequence(s, Tail(t))

UpperLetters == <<"A","B","C","D","E","F","G","H","I","J","K","L","M",
                  "N","O","P","Q","R","S","T","U","V","W","X","Y","Z">>
LowerLetters == <<"a","b","c","d","e","f","g","h","i","j","k","l","m",
                  "n","o","p","q","r","s","t","u","v","w","x","y","z">>

\* str.lower() on the upper-case letters
LowerOf == [c \in {UpperLetters[i] : i \in 1..26} |->
               LowerLetters[CHOOSE i \in 1..26 : UpperLetters[i] = c]]

\* str.lower() on one character atom
LowerAtom(c) == IF c \in DOMAIN LowerOf THEN LowerOf[c] ELSE c

\* str.lower() on a URL or domain
Lower(s) == [i \in 1..Len(s) |-> LowerAtom(s[i])]

-----------------------------------------------------------------------------
(* URLs and domains: services/serper.py *)

dot_co_jp == <<".", "c", "o", ".", "j", "p">>
dot_go_jp == <<".", "g", "o", ".", "j", "p">>
dot_lg_jp == <<".", "l", "g", ".", "j", "p">>
dot_ed_jp == <<".", "e", "d", ".", "j", "p">>
dot_ac_jp == <<".", "a", "c", ".", "j", "p">>

\* the suffix denylist
EXCLUDE_SUFFIXES == {dot_go_jp, dot_lg_jp, dot_ed_jp, dot_ac_jp}

\* entries of the substring denylist: 'x.com', 'type.jp', 'note.com'
EXCLUDE_DOMAINS ==
    { <<"x", ".", "c", "o", "m">>,
      <<"t", "y", "p", "e", ".", "j", "p">>,
      <<"n", "o", "t", "e", ".", "c", "o", "m">> }

\* the atoms that end the authority component of a URL
AuthorityEnd == {"/", "?", "#"}

RECURSIVE Authority(_)
\* the atoms of s up to the first "/", "?" or "#"
Authority(s) ==
    IF s = <<>> \/ Head(s) \in AuthorityEnd THEN <<>>
    ELSE <<Head(s)>> \o Authority(Tail(s))

\* urlparse(url).netloc: the text between "//" and the next "/", "?", "#";
\* empty when the URL has no "//" after its scheme
extract_domain(url) ==
    IF Len(url) >= 2 /\ url[1] = "https:" /\ url[2] = "//"
    THEN Authority(SubSeq(url, 3, Len(url)))
    ELSE IF Len(url) >= 1 /\ url[1] = "//"
    THEN Authority(Tail(url))
    ELSE <<>>

is_excluded_domain_no_suffix(domain) ==
    \E excluded \in EXCLUDE_DOMAINS : IsSubstr(excluded, Lower(domain))

is_excluded_domain(domain) ==
    \/ \E excluded \in EXCLUDE_DOMAINS : IsSubstr(excluded, Lower(domain))
    \/ \E suffix \in EXCLUDE_SUFFIXES : EndsWith(Lower(domain), suffix)

-----------------------------------------------------------------------------
(* Titles and company names *)

\* number of characters of a token
TokLen(t) ==
    CASE t = "KK" -> 4
      [] t = "KS" -> 5
      [] t = "TEN" -> 2
      [] t = "SEN" -> 3
      [] OTHER -> Len(t)

RECURSIVE CharLen(_)
\* len(name) in characters
CharLen(name) ==
    IF name = <<>> THEN 0 ELSE TokLen(Head(name)) + CharLen(Tail(name))

\* str.lower() on one token of a title
LowerTok(t) ==
    CASE t = "TOP10" -> "top10"
      [] t \in {"KK", "KS", "TEN", "SEN"} -> t
      [] Len(t) = 1 -> LowerAtom(t)
      [] OTHER -> t

LowerTitle(title) == [i \in 1..Len(title) |-> LowerTok(title[i])]

\* entries of the title denylist: "転職" and "TOP10"
EXCLUDE_TITLE_PATTERNS == { <<"TEN">>, <<"TOP10">> }

is_excluded_title(title) ==
    \E pattern \in EXCLUDE_TITLE_PATTERNS : IsSubstr(pattern, LowerTitle(title))

\* re.search(r'株式会社|...', title): a corporate-form marker occurs
HasCorporateType(name) == \E i \in 1..Len(name) : name[i] = "KK"

is_likely_company_title(title) ==
    IF HasCorporateType(title) THEN TRUE
    ELSE IF \E i \in 1..Len(title) : title[i] = "SEN" THEN FALSE
    ELSE TRUE

-----------------------------------------------------------------------------
(* The search provider: the results it can return *)

\* https://s<i>.co.jp/<path...>
SiteUrl(i, path) == <<"https:", "//", "s", ToString(i)>> \o dot_co_jp \o path
SiteDomain(i) == <<"s", ToString(i)>> \o dot_co_jp

Result(link, title) == [link |-> link, title |-> title]

R_plain    == Result(SiteUrl(1, <<"/">>), <<"KK", "A">>)
R_sameName == Result(SiteUrl(2, <<"/", "a">>), <<"KK", "A", "|", "KS">>)
R_upper    == Result(<<"https:", "//", "S", "1">> \o dot_co_jp \o <<"/">>,
                     <<"KK", "B", "A">>)
R_denied   == Result(<<"https:", "//", "a", "X", ".", "c", "o", "m", "/">>,
                     <<"KK", "B">>)
R_gov      == Result(<<"https:", "//", "c">> \o dot_go_jp \o <<"/">>,
                     <<"KK", "B">>)
R_noHost   == Result(<<"s", "1">> \o dot_co_jp \o <<"/", "x">>, <<"KK", "B">>)
R_noLink   == Result(<<>>, <<"KK", "B">>)
R_jobAd    == Result(SiteUrl(3, <<"/">>), <<"TEN", "KK", "A">>)
R_roundup  == Result(<<"https:", "//", "s", "4", ".", "j", "p", "/">>, <<"SEN">>)
R_coJpList == Result(SiteUrl(5, <<"/">>), <<"SEN">>)
R_www      == Result(<<"https:", "//", "w", "w", "w", ".", "s", "1">>
                        \o dot_co_jp \o <<"/">>,
                     <<"KK", "C">>)

R_topTen   == Result(SiteUrl(6, <<"/">>), <<"TOP10", "KK", "A">>)
R_corpList == Result(<<"https:", "//", "s", "7", ".", "j", "p", "/">>,
                     <<"KK", "A", "SEN">>)

\* the pages the provider can answer a request with
Pages ==
    { <<R_plain, R_sameName>>,
      <<R_denied, R_gov, R_plain>>,
      <<R_noHost, R_upper, R_noHost>>,
      <<R_jobAd, R_roundup, R_coJpList>>,
      <<R_noLink, R_sameName, R_plain>>,
      <<R_gov, R_denied>>,
      <<R_www>> }

\* the pages the provider can answer a request of a call on its own with
SearchPages == Pages \cup { <<R_topTen, R_corpList>>, <<>> }

-----------------------------------------------------------------------------
(* SerperClient.search_companies: services/serper.py *)

CompanyData(company_name, url, domain) ==
    [company_name |-> company_name, url |-> url, domain |-> domain]

\* the filters of the per-result loop without the denylist test
AcceptsWithoutDenylist(result, found) ==
    LET domain == extract_domain(result.link) IN
    /\ result.link # <<>>
    /\ ~is_excluded_title(result.title)
    /\ domain \notin found
    /\ (EndsWith(domain, dot_co_jp) \/ is_likely_company_title(result.title))

\* the filters of the per-result loop without the running-dedup test
AcceptsWithoutDedup(result, found) ==
    LET domain == extract_domain(result.link) IN
    /\ result.link # <<>>
    /\ ~is_excluded_domain(domain)
    /\ ~is_excluded_title(result.title)
    /\ (EndsWith(domain, dot_co_jp) \/ is_likely_company_title(result.title))

\* the filters of the per-result loop: TRUE when the result is appended
Accepts(result, found) ==
    LET domain == extract_domain(result.link) IN
    /\ result.link # <<>>
    /\ ~is_excluded_domain(domain)
    /\ ~is_excluded_title(result.title)
    /\ domain \notin found
    /\ (EndsWith(domain, dot_co_jp) \/ is_likely_company_title(result.title))

\* the for-loop's guard read as "more than the target"
TargetReachedOffByOne(comps, target) == Len(comps) > target

\* len(companies) >= target_count
TargetReached(comps, target) == Len(comps) >= target

AddCompanyInFront(comps, c) == <<c>> \o comps

\* companies.append(...)
AddCompany(comps, c) == Append(comps, c)

RECURSIVE ProcessResults(_, _, _, _)
\* the loop "for result in results" of one page
ProcessResults(rs, comps, found, target) ==
    IF rs = <<>> \/ TargetReached(comps, target)
    THEN [companies |-> comps, found_domains |-> found]
    ELSE IF Accepts(Head(rs), found)
    THEN LET domain == extract_domain(Head(rs).link) IN
         ProcessResults(Tail(rs),
                        AddCompany(comps, CompanyData(Head(rs).title,
                                                      Head(rs).link, domain)),
                        found \cup {domain}, target)
    ELSE ProcessResults(Tail(rs), comps, found, target)

\* the sets of existing domains a call is given
ExistingChoices == { {}, {SiteDomain(1)}, {SiteDomain(2), <<>>} }

\* how the request of get_existing_domains can end: an error (of the
\* connection, the status or the JSON), or the domains of the sheet
ExistingOutcomes ==
    {[failed |-> TRUE, domains |-> {}]}
    \cup {[failed |-> FALSE, domains |-> d] : d \in ExistingChoices}

StaleDomainsOnError(outcome) ==
    IF outcome.failed THEN {SiteDomain(1)} ELSE outcome.domains

\* GASClient.get_existing_domains: every exception is caught and answered
\* with set()
get_existing_domains(outcome) ==
    IF outcome.failed THEN {} ELSE outcome.domains

\* the reply variable before run_sync_workflow has returned
NoReply ==
    [result_count |-> 0, search_count |-> 0, scrape_count |-> 0,
     spreadsheet_url |-> "none",
     message |-> [text |-> "none", result_count |-> 0, contact_count |-> 0,
                  spreadsheet_url |-> ""]]

\* the job variable of a request that has no Job
NoJob ==
    [status |-> "none", progress |-> 0, target_count |-> 0,
     result_count |-> 0, spreadsheet_url |-> "none"]

\* no request is in progress
WorkflowIdle ==
    /\ wf_pc = "idle"
    /\ request = [mode |-> "none", llm |-> FALSE, keyword |-> "none",
                  target_count |-> 0]
    /\ job = NoJob
    /\ round_num = 0
    /\ all_cleansed = <<>>
    /\ used_domains = {}
    /\ used_names = {}
    /\ round_companies = <<>>
    /\ scraped_results = <<>>
    /\ successful_results = <<>>
    /\ sink = <<>>
    /\ response = <<>>
    /\ reply = NoReply
    /\ existing_failed = FALSE
    /\ save_outcome = "none"
    /\ rejected_domains = {}

\* no function is called on its own
\* a URL of a site by its kind: none, the link of the top page, the
\* anchor of the top page, the n-th common contact path, the n-th about URL
NoUrl == <<"none", 0>>

\* no scrape_company call is in progress
CompanyIdle ==
    /\ co_pc = "idle"
    /\ co_page = [matches |-> FALSE, link |-> "none", phone |-> FALSE]
    /\ co_attempt = 0
    /\ co_path = 0
    /\ co_requests = <<>>
    /\ co_contact_url = NoUrl
    /\ co_phone = ""
    /\ co_error = ""

PureIdle ==
    /\ fn_call = [f |-> "none", arg |-> <<>>]
    /\ fn_result = <<>>

\* the keywords of the requests, and the requests
Keywords == {"a", "b"}
RequestIds == {1, 2}

\* the entry of _query_pools for a keyword that has no pool yet
NoPool == [made |-> FALSE, pool |-> <<>>, used |-> {}]

\* no pool is made and no request has asked for queries
QueriesIdle ==
    /\ query_pools = [k \in Keywords |-> NoPool]
    /\ rq_keyword = [r \in RequestIds |-> "a"]
    /\ rq_round = [r \in RequestIds |-> 0]
    /\ rq_used = [r \in RequestIds |-> {}]
    /\ rq_done = [r \in RequestIds |-> TRUE]
    /\ rq_log = [r \in RequestIds |-> <<>>]

\* the last call of a registry nobody has called
NoCall ==
    [op |-> "none", now |-> 0, removed |-> {}, created |-> 0, updated |-> 0]

\* the registry after construction, with its clock not running
JobsIdle ==
    /\ jm_now = 0
    /\ jm_jobs = {}
    /\ jm_ids = 0
    /\ jm_held = <<>>
    /\ jm_last = NoCall

\* no cleanse_companies call is in progress
CleanseIdle ==
    /\ cl_pc = "idle"
    /\ cl_companies = <<>>
    /\ cl_i = 0
    /\ cl_attempt = 0
    /\ cl_all_cleansed = <<>>
    /\ cl_failed_batches = 0
    /\ cl_log = <<>>
    /\ ctl_cleansed = <<>>
    /\ ctl_merged = <<>>

\* no scrape_companies call is in progress
ScrapeIdle ==
    /\ sc_pc = "idle"
    /\ sc_companies = <<>>
    /\ task_pc = <<>>
    /\ sem_value = 0
    /\ sem_waiters = <<>>
    /\ gathered = <<>>
    /\ results_list = <<>>

\* no search_companies call is in progress
SearchIdle ==
    /\ s_pc = "idle"
    /\ queries = <<>>
    /\ target_count = 0
    /\ existing_domains = {}
    /\ found_domains = {}
    /\ companies = <<>>
    /\ max_pages_per_query = DefaultMaxPages
    /\ qi = 1
    /\ page = 0
    /\ results = <<>>
    /\ search_errors = {}

SearchInit ==
    /\ s_pc = "query"
    /\ queries \in {[i \in 1..n |-> i] : n \in 0..MaxQueries}
    /\ target_count \in 0..MaxSearchTarget
    /\ existing_domains \in ExistingChoices
    /\ max_pages_per_query \in {DefaultMaxPages, DefaultMaxPages + 1}
    /\ found_domains = existing_domains
    /\ companies = <<>>
    /\ qi = 1
    /\ page = 0
    /\ results = <<>>
    /\ search_errors = {}

\* the guards of both for-loops hold: a request is sent
Requesting ==
    /\ s_pc = "query"
    /\ qi <= Len(queries)
    /\ page < max_pages_per_query
    /\ ~TargetReached(companies, target_count)

NextQuery == qi' = qi + 1 /\ page' = 0

\* an exception of self.search that ends the whole call
ErrorEndsCall(q) == qi' = q /\ page' = page /\ s_pc' = "raised"

\* except Exception: log a warning and break, out of the paging loop of
\* query q and on to the next query
ErrorEndsPaging(q) == qi' = q + 1 /\ page' = 0 /\ s_pc' = s_pc

\* self.search raises: the paging loop of this query ends
ProviderError ==
    /\ Requesting
    /\ ErrorEndsPaging(qi)
    /\ results' = <<>>
    /\ search_errors' = search_errors \cup {<<qi, page>>}
    /\ UNCHANGED <<queries, target_count, existing_domains,
                   found_domains, companies, max_pages_per_query>>
    /\ UNCHANGED notSearchVars

\* self.search returns a page (possibly empty)
ProviderPage ==
    /\ Requesting
    /\ \E rs \in SearchPages :
         LET out == ProcessResults(rs, companies, found_domains, target_count)
             added == Len(out.companies) - Len(companies)
         IN  /\ results' = rs
             /\ companies' = out.companies
             /\ found_domains' = out.found_domains
             /\ IF rs = <<>> \/ added = 0 \/ page + 1 >= max_pages_per_query
                THEN NextQuery
                ELSE qi' = qi /\ page' = page + 1
    /\ UNCHANGED <<s_pc, queries, target_count, existing_domains,
                   max_pages_per_query, search_errors>>
    /\ UNCHANGED notSearchVars

\* the outer loop ends (queries exhausted or target met): return companies
SearchReturn ==
    /\ s_pc = "query"
    /\ qi > Len(queries) \/ TargetReached(companies, target_count)
    /\ s_pc' = "returned"
    /\ UNCHANGED <<queries, target_count, existing_domains, found_domains,
                   companies, max_pages_per_query, qi, page, results,
                   search_errors>>
    /\ UNCHANGED notSearchVars

SearchNext == ProviderError \/ ProviderPage \/ SearchReturn

\* a search_companies call on its own
InitSearch ==
    SearchInit /\ ScrapeIdle /\ CleanseIdle /\ WorkflowIdle /\ JobsIdle
    /\ QueriesIdle /\ PureIdle /\ CompanyIdle

SpecSearch == InitSearch /\ [][SearchNext]_vars

-----------------------------------------------------------------------------
(* Properties of search_companies *)

\* C4: every candidate search_companies holds or returns has a domain that
\* matches neither the substring denylist nor the suffix denylist, and is
\* not a member of the existing_domains set the call was given.
C4_CandidatesNotDeniedNotExisting ==
    \A i \in 1..Len(companies) :
        LET d == companies[i].domain IN
        /\ ~\E e \in EXCLUDE_DOMAINS : IsSubstr(e, Lower(d))
        /\ ~\E suffix \in {dot_go_jp, dot_lg_jp, dot_ed_jp, dot_ac_jp} :
               EndsWith(Lower(d), suffix)
        /\ d \notin existing_domains

\* a call that was answered with denied, governmental and existing domains
\* has returned the one candidate that is none of these
C4_Witness ==
    /\ s_pc = "returned"
    /\ results = <<R_denied, R_gov, R_plain>>
    /\ existing_domains = {SiteDomain(2), <<>>}
    /\ Len(companies) = 1
    /\ companies[1].domain = SiteDomain(1)

\* the result a candidate was made from
AsResult(c) == Result(c.url, c.company_name)

\* one step of the call keeps the candidates it has and appends the new
\* ones in the order of the page just answered; requests go by query, then
\* by page
AppendsInResultOrder ==
    /\ Len(companies') >= Len(companies)
    /\ SubSeq(companies', 1, Len(companies)) = companies
    /\ IsSubsequence(
          [k \in 1..(Len(companies') - Len(companies)) |->
              AsResult(companies'[Len(companies) + k])],
          results')
    /\ (qi' > qi \/ (qi' = qi /\ page' >= page))

\* C5: search_companies returns at most target_count candidates, no two of
\* them with the same domain, in the order of first acceptance (query
\* order, then page order, then result order).
C5_AtMostTargetDistinctInOrder ==
    /\ [](/\ Len(companies) <= target_count
          /\ \A i, j \in 1..Len(companies) :
                i # j => companies[i].domain # companies[j].domain)
    /\ [][AppendsInResultOrder]_vars

\* a call has returned exactly its target of three candidates, taken from
\* more than one query
C5_Witness ==
    /\ s_pc = "returned"
    /\ target_count = 3
    /\ Len(companies) = 3
    /\ qi >= 2

\* C31: a provider error on a (query, page) request ends only the paging
\* loop of that query: the candidates accepted so far are kept, the call
\* goes on with the next query, it ends only when the queries are used up
\* or the target is met, and it returns normally instead of raising.
C31_ProviderErrorEndsOnlyThePaging ==
    /\ [][search_errors' # search_errors =>
            /\ companies' = companies
            /\ found_domains' = found_domains
            /\ qi' = qi + 1 /\ page' = 0
            /\ s_pc' = "query"]_vars
    /\ [](s_pc \in {"idle", "query", "returned"})
    /\ [](s_pc = "returned" =>
            (qi > Len(queries) \/ Len(companies) >= target_count))

\* the first query's request raised after nothing, the second query was
\* still sent and its candidates were returned
C31_Witness ==
    /\ s_pc = "returned"
    /\ search_errors = {<<1, 0>>}
    /\ Len(queries) = 2
    /\ results = <<R_plain, R_sameName>>
    /\ Len(companies) = 2

\* C32: no candidate accepted by search_companies has a title that
\* contains a phrase of the title denylist, the TOP-N markers included,
\* whatever its domain.
C32_NoDenylistedTitleAccepted ==
    \A i \in 1..Len(companies) :
        ~\E phrase \in EXCLUDE_TITLE_PATTERNS :
            IsSubstr(phrase, companies[i].company_name)

\* the title matches the "N選" pattern
MatchesRejectPattern(title) == \E i \in 1..Len(title) : title[i] = "SEN"

\* C33: a result whose domain does not end in .co.jp is rejected whenever
\* its title matches a reject pattern ("N選"), also when the title has a
\* corporate-form marker: no accepted candidate outside .co.jp has such a
\* title.  On .co.jp domains the heuristic is skipped.
C33_RejectPatternBeatsCorporateMarker ==
    \A i \in 1..Len(companies) :
        ~EndsWith(companies[i].domain, dot_co_jp) =>
            ~MatchesRejectPattern(companies[i].company_name)

-----------------------------------------------------------------------------
(* The scraper: scraper.py *)

\* f"{parsed.scheme}://{parsed.netloc}/": a URL without a scheme and host
\* becomes ":///"
normalize_to_top_page(url) ==
    IF Len(url) >= 2 /\ url[1] = "https:" /\ url[2] = "//"
    THEN <<"https:", "//">> \o extract_domain(url) \o <<"/">>
    ELSE <<":", "//">> \o extract_domain(url) \o <<"/">>

\* scraper.normalize_company_name: lower-case, the corporate forms removed
\* (no token of the name alphabet is white space or one of the removed
\* symbols)
scraper_normalize_company_name(name) ==
    LowerTitle(SelectSeqR(name, {name[i] : i \in 1..Len(name)} \ {"KK"}))

\* a page of the modelled web; the pages have no og:site_name and no
\* header, footer or company section, text is the text of the whole page
WebPage(title, text, contact, phone) ==
    [up |-> TRUE, title |-> title, text |-> text,
     contact |-> contact, phone |-> phone]

\* a site that answers no request with status 200
SiteDown ==
    [up |-> FALSE, title |-> <<>>, text |-> <<>>,
     contact |-> FALSE, phone |-> FALSE]

\* the top page of site s<i>.co.jp: sites 1, 2 and 5 are the sites of the
\* provider's fixed results, sites 10..29 are up or down, with or without
\* the company's name and contact data, by their number, sites 30.. are up
\* and carry their company's name
SitePage(i) ==
    CASE i = 1 -> WebPage(<<"KK", "A">>, <<"KK", "A">>, TRUE, TRUE)
      [] i = 2 -> WebPage(<<"KK", "A", "|", "KS">>, <<"KK", "A", "|", "KS">>,
                          FALSE, FALSE)
      [] i = 5 -> WebPage(<<"SEN">>, <<"SEN">>, TRUE, FALSE)
      [] i \in {3, 4, 6, 7, 8, 9} -> SiteDown
      [] i \in 10..29 /\ i % 4 = 3 -> SiteDown
      [] i \in 10..29 /\ i % 4 = 2 ->
            WebPage(<<"KK", "A">>, <<"KK", "A">>, TRUE, FALSE)
      [] i \in 10..29 /\ i % 4 \in {0, 1} ->
            WebPage(<<"KK", "n" \o ToString(i)>>, <<"KK", "n" \o ToString(i)>>,
                    i % 4 = 0, i % 4 = 1)
      [] OTHER ->
            WebPage(<<"KK", "n" \o ToString(i)>>, <<"KK", "n" \o ToString(i)>>,
                    i % 2 = 0, FALSE)

\* the host names of the numbered sites
SiteNumber == [d \in {SiteDomain(i) : i \in 1..MaxSites} |->
                  CHOOSE i \in 1..MaxSites : d = SiteDomain(i)]

\* the site a host name leads to (host names are case-insensitive)
SiteOf(domain) ==
    LET host == Lower(domain) IN
    IF host \in DOMAIN SiteNumber THEN SitePage(SiteNumber[host]) ELSE SiteDown

check_company_match(company_name, html) ==
    LET normalized_name == scraper_normalize_company_name(company_name)
        title == scraper_normalize_company_name(html.title)
        body_text == scraper_normalize_company_name(html.text)
    IN  IF CharLen(normalized_name) < 2 THEN TRUE
        ELSE IF IsSubstr(normalized_name, title) THEN TRUE
        ELSE IF CharLen(title) >= 2 /\ IsSubstr(title, normalized_name) THEN TRUE
        ELSE IF CharLen(normalized_name) >= 3
                /\ IsSubstr(normalized_name, body_text) THEN TRUE
        ELSE FALSE

ScrapeResult(company_name, base_url, contact_url, phone, domain, error) ==
    [company_name |-> company_name, base_url |-> base_url,
     contact_url |-> contact_url, phone |-> phone, domain |-> domain,
     error |-> error]

scrape_company_contact_first(company_name, url) ==
    LET base_url == normalize_to_top_page(url)
        domain == extract_domain(base_url)
        top_page_html == SiteOf(domain)
        contact_url == IF top_page_html.contact
                       THEN base_url \o <<"contact", "/">> ELSE <<>>
        phone == IF top_page_html.phone THEN "03-1234-5678" ELSE ""
    IN  IF ~top_page_html.up
        THEN ScrapeResult(company_name, base_url, <<>>, "", domain,
                          "top_page_failed")
        ELSE IF ~check_company_match(company_name, top_page_html)
        THEN ScrapeResult(company_name, base_url, contact_url, phone, domain,
                          "company_mismatch")
        ELSE ScrapeResult(company_name, base_url, contact_url, phone,
                          domain, "")

\* the result of scrape_company(client, company_name, url) on the modelled
\* web
scrape_company(company_name, url) ==
    LET base_url == normalize_to_top_page(url)
        domain == extract_domain(base_url)
        top_page_html == SiteOf(domain)
    IN  IF ~top_page_html.up
        THEN ScrapeResult(company_name, base_url, <<>>, "", domain,
                          "top_page_failed")
        ELSE IF ~check_company_match(company_name, top_page_html)
        THEN ScrapeResult(company_name, base_url, <<>>, "", domain,
                          "company_mismatch")
        ELSE ScrapeResult(company_name, base_url,
                          IF top_page_html.contact
                          THEN base_url \o <<"contact", "/">> ELSE <<>>,
                          IF top_page_html.phone THEN "03-1234-5678" ELSE "",
                          domain, "")

-----------------------------------------------------------------------------
(* scrape_company, request by request: fetch_with_retry on the top page,   *)
(* the name check, the extraction, and the requests of STEP 5 to STEP 7.   *)
(* A step is one client.get that has ended, with what the task does until  *)
(* its next request.                                                       *)

\* the top pages a site can have: whether the page carries the company's
\* name, which contact link it holds (none, a link to a page of the site,
\* the anchor #contact, or a link urljoin raises on), whether it shows a
\* phone number
TopPages ==
    [matches : BOOLEAN, link : {"none", "link", "anchor", "malformed"},
     phone : BOOLEAN]

PhoneNumber == "03-1234-5678"

\* a loop that makes one attempt more than range(max_retries + 1)
RetryFollowsOnceMore(attempt, max_retries) == attempt <= max_retries

\* fetch_with_retry, "for attempt in range(max_retries + 1)": attempt was
\* not the last one
RetryFollows(attempt, max_retries) == attempt < max_retries

\* extract_contact_from_html(top_page_html, base_url)
extract_contact_from_html(html) ==
    CASE html.link = "link" -> <<"link", 0>>
      [] html.link = "anchor" -> <<"anchor", 0>>
      [] OTHER -> NoUrl

\* extract_phone_from_html(top_page_html)
extract_phone_from_html(html) == IF html.phone THEN PhoneNumber ELSE ""

\* '#' in contact_url
HasFragment(url) == url[1] = "anchor"

\* STEP 7 when the phone is missing, the return otherwise
ToAbout(phone) ==
    IF phone = "" THEN [pc |-> "about", path |-> 1]
    ELSE [pc |-> "returned", path |-> 0]

\* STEP 6 when no contact URL was found, then STEP 7
ToCommon(contact_url, phone) ==
    IF contact_url = NoUrl THEN [pc |-> "common", path |-> 1]
    ELSE ToAbout(phone)

\* STEP 5 when a contact URL without fragment was found and the phone is
\* missing, then STEP 6 and STEP 7
ToContact(contact_url, phone) ==
    IF contact_url # NoUrl /\ phone = "" /\ ~HasFragment(contact_url)
    THEN [pc |-> "contact", path |-> 0]
    ELSE ToCommon(contact_url, phone)

\* the task goes on to the request of the stage, or returns
CompanyGoTo(stage) ==
    /\ co_pc' = stage.pc
    /\ co_path' = stage.path
    /\ co_attempt' = 0

CompanyInit ==
    /\ co_pc = "top"
    /\ co_page \in TopPages
    /\ co_attempt = 0
    /\ co_path = 0
    /\ co_requests = <<>>
    /\ co_contact_url = NoUrl
    /\ co_phone = ""
    /\ co_error = ""

\* STEP 1 to STEP 4: a request of the top page ends
TopAnswered ==
    /\ co_pc = "top"
    /\ co_requests' = Append(co_requests, <<"top", 0>>)
    /\ \E ok \in BOOLEAN :
         IF ~ok
         THEN IF RetryFollows(co_attempt, 1)
              THEN /\ co_attempt' = co_attempt + 1
                   /\ UNCHANGED <<co_pc, co_path, co_contact_url, co_phone,
                                  co_error>>
              ELSE /\ co_error' = "top_page_failed"
                   /\ co_pc' = "returned"
                   /\ UNCHANGED <<co_attempt, co_path, co_contact_url,
                                  co_phone>>
         ELSE IF ~co_page.matches
         THEN /\ co_error' = "company_mismatch"
              /\ co_pc' = "returned"
              /\ UNCHANGED <<co_attempt, co_path, co_contact_url, co_phone>>
         ELSE IF co_page.link = "malformed"
         THEN /\ co_pc' = "raised"
              /\ UNCHANGED <<co_attempt, co_path, co_contact_url, co_phone,
                             co_error>>
         ELSE /\ co_contact_url' = extract_contact_from_html(co_page)
              /\ co_phone' = extract_phone_from_html(co_page)
              /\ CompanyGoTo(ToContact(co_contact_url', co_phone'))
              /\ UNCHANGED co_error
    /\ UNCHANGED co_page
    /\ UNCHANGED notCompanyVars

\* STEP 5: a request of the contact URL ends
ContactAnswered ==
    /\ co_pc = "contact"
    /\ co_requests' = Append(co_requests, <<"contact", 0>>)
    /\ \E answer \in {"failed", "no_phone", "phone"} :
         IF answer = "failed"
         THEN IF RetryFollows(co_attempt, 1)
              THEN /\ co_attempt' = co_attempt + 1
                   /\ UNCHANGED <<co_pc, co_path, co_phone>>
              ELSE /\ CompanyGoTo(ToCommon(co_contact_url, co_phone))
                   /\ UNCHANGED co_phone
         ELSE /\ co_phone' = IF answer = "phone" THEN PhoneNumber ELSE ""
              /\ CompanyGoTo(ToCommon(co_contact_url, co_phone'))
    /\ UNCHANGED <<co_page, co_contact_url, co_error>>
    /\ UNCHANGED notCompanyVars

\* STEP 6, try_common_contact_urls: the request of a common path ends
CommonAnswered ==
    /\ co_pc = "common"
    /\ co_requests' = Append(co_requests, <<"common", co_path>>)
    /\ \E answer \in {"failed", "other_page", "contact_page"} :
         IF answer = "contact_page"
         THEN /\ co_contact_url' = <<"common", co_path>>
              /\ CompanyGoTo(ToAbout(co_phone))
         ELSE IF co_path < CommonPaths
         THEN /\ co_path' = co_path + 1
              /\ UNCHANGED <<co_pc, co_attempt, co_contact_url>>
         ELSE /\ CompanyGoTo(ToAbout(co_phone))
              /\ UNCHANGED co_contact_url
    /\ UNCHANGED <<co_page, co_phone, co_error>>
    /\ UNCHANGED notCompanyVars

\* STEP 7: the request of company/ or about/ ends
AboutAnswered ==
    /\ co_pc = "about"
    /\ co_requests' = Append(co_requests, <<"about", co_path>>)
    /\ \E answer \in {"failed", "no_phone", "phone"} :
         IF answer = "failed" /\ RetryFollows(co_attempt, 1)
         THEN /\ co_attempt' = co_attempt + 1
              /\ UNCHANGED <<co_pc, co_path, co_phone>>
         ELSE IF answer = "phone"
         THEN /\ co_phone' = PhoneNumber
              /\ CompanyGoTo([pc |-> "returned", path |-> 0])
         ELSE IF co_path < 2
         THEN /\ co_path' = co_path + 1
              /\ co_attempt' = 0
              /\ UNCHANGED <<co_pc, co_phone>>
         ELSE /\ CompanyGoTo([pc |-> "returned", path |-> 0])
              /\ UNCHANGED co_phone
    /\ UNCHANGED <<co_page, co_contact_url, co_error>>
    /\ UNCHANGED notCompanyVars

CompanyNext ==
    \/ TopAnswered
    \/ ContactAnswered
    \/ CommonAnswered
    \/ AboutAnswered

\* a scrape_company call on its own
InitCompany ==
    CompanyInit /\ SearchIdle /\ ScrapeIdle /\ CleanseIdle /\ WorkflowIdle
    /\ JobsIdle /\ QueriesIdle /\ PureIdle

SpecCompany == InitCompany /\ [][CompanyNext]_vars

\* the requests of a kind among the requests made so far
RequestsOf(kind) ==
    {i \in 1..Len(co_requests) : co_requests[i][1] = kind}

C35_EnrichFetchesContactUrl ==
    /\ (co_pc \in {"common", "about", "returned"} /\ co_error = ""
        /\ extract_contact_from_html(co_page) # NoUrl /\ ~co_page.phone) =>
          RequestsOf("contact") # {}
    /\ RequestsOf("common") # {} => extract_contact_from_html(co_page) = NoUrl
    /\ \A i, j \in RequestsOf("common") :
          i < j => co_requests[i][2] < co_requests[j][2]
    /\ co_pc = "about" => co_phone = ""

-----------------------------------------------------------------------------
(* scrape_companies: one task per company, gated by                        *)
(* asyncio.Semaphore(MAX_CONCURRENT), collected by asyncio.gather.         *)
(*                                                                         *)
(* A task is "created" until the event loop runs it (the loop runs the     *)
(* tasks in the order gather made them, before any response can arrive),   *)
(* "waiting" in semaphore.acquire, "woken" once release has handed it the  *)
(* permit, "fetch" while a client.get is in flight, "pause" in one of the  *)
(* asyncio.sleep calls and "done" once it has returned.  Which requests a  *)
(* task makes depends on the site; every order of responses and timers is  *)
(* allowed.                                                                *)

\* the companies dicts of a call: candidate i is the company of site 10+i
ScrapeInput(n) ==
    [i \in 1..n |-> [company_name |-> <<"KK", "n" \o ToString(10 + i)>>,
                     url |-> SiteUrl(10 + i, <<"/", "a">>)]]

\* scrape_company on the companies of the model, computed once
Scraped ==
    [c \in {ScrapeInput(NumCompanies)[i] : i \in 1..NumCompanies} |->
        scrape_company(c.company_name, c.url)]

\* a slot of gather that has no result yet
NoResult == ScrapeResult(<<>>, <<>>, <<>>, "", <<>>, "pending")

ScrapeInit ==
    /\ sc_pc = "gather"
    /\ sc_companies \in {ScrapeInput(n) : n \in 0..NumCompanies}
    /\ task_pc = [i \in 1..Len(sc_companies) |-> "created"]
    /\ sem_value = MAX_CONCURRENT
    /\ sem_waiters = <<>>
    /\ gathered = [i \in 1..Len(sc_companies) |-> NoResult]
    /\ results_list = <<>>

Tasks == 1..Len(sc_companies)

\* the requests of the tasks that are in flight
InFlight == {i \in Tasks : task_pc[i] = "fetch"}

lockedNever(value, waiters) == FALSE

\* Semaphore.locked(): no permit is free
locked(value, waiters) == value = 0

StoreInCompletionOrder(slots, i, r) ==
    LET k == CHOOSE k \in 1..Len(slots) :
                 /\ slots[k] = NoResult
                 /\ \A j \in 1..(k - 1) : slots[j] # NoResult
    IN  [slots EXCEPT ![k] = r]

\* gather keeps the result of the i-th awaitable at position i
GatherStore(slots, i, r) == [slots EXCEPT ![i] = r]

\* the event loop runs task i for the first time: "async with semaphore"
\* either takes a permit and sends the first request, or queues the task
TaskStart(i) ==
    /\ sc_pc = "gather"
    /\ task_pc[i] = "created"
    /\ \A j \in 1..(i - 1) : task_pc[j] # "created"
    /\ IF ~locked(sem_value, sem_waiters)
       THEN /\ sem_value' = sem_value - 1
            /\ task_pc' = [task_pc EXCEPT ![i] = "fetch"]
            /\ UNCHANGED sem_waiters
       ELSE /\ sem_waiters' = Append(sem_waiters, i)
            /\ task_pc' = [task_pc EXCEPT ![i] = "waiting"]
            /\ UNCHANGED sem_value
    /\ UNCHANGED <<sc_pc, sc_companies, gathered, results_list>>
    /\ UNCHANGED notScrapeVars

\* the tasks start in order: all have started once the last one has
AllStarted == task_pc[Len(task_pc)] # "created"

\* a woken waiter runs again: acquire returns and the first request is sent
TaskResume(i) ==
    /\ sc_pc = "gather"
    /\ task_pc[i] = "woken"
    /\ AllStarted
    /\ task_pc' = [task_pc EXCEPT ![i] = "fetch"]
    /\ UNCHANGED <<sc_pc, sc_companies, sem_value, sem_waiters, gathered,
                   results_list>>
    /\ UNCHANGED notScrapeVars

\* client.get of task i ends (response, error or timeout) and the task
\* reaches its next asyncio.sleep
FetchEnds(i) ==
    /\ sc_pc = "gather"
    /\ task_pc[i] = "fetch"
    /\ AllStarted
    /\ task_pc' = [task_pc EXCEPT ![i] = "pause"]
    /\ UNCHANGED <<sc_pc, sc_companies, sem_value, sem_waiters, gathered,
                   results_list>>
    /\ UNCHANGED notScrapeVars

\* the top page of task i has arrived and matched, it holds a contact
\* link, and the link is one urljoin raises on (whether it is, is the
\* site's choice): extract_contact_from_html raises,
\* scrape_company and the task raise, and gather, called without
\* return_exceptions, raises it in scrape_companies
TaskRaises(i) ==
    /\ sc_pc = "gather"
    /\ task_pc[i] = "fetch"
    /\ AllStarted
    /\ Scraped[sc_companies[i]].error = ""
    /\ Scraped[sc_companies[i]].contact_url # <<>>
    /\ task_pc' = [task_pc EXCEPT ![i] = "raised"]
    /\ sc_pc' = "raised"
    /\ UNCHANGED <<sc_companies, sem_value, sem_waiters, gathered,
                   results_list>>
    /\ UNCHANGED notScrapeVars

\* a retry sleep of task i ends: the next request is sent
NextRequest(i) ==
    /\ sc_pc = "gather"
    /\ task_pc[i] = "pause"
    /\ AllStarted
    /\ task_pc' = [task_pc EXCEPT ![i] = "fetch"]
    /\ UNCHANGED <<sc_pc, sc_companies, sem_value, sem_waiters, gathered,
                   results_list>>
    /\ UNCHANGED notScrapeVars

\* the interval sleep of task i ends: the task leaves "async with"
\* (release hands the permit to the first waiter, if any) and returns its
\* result to gather
TaskReturn(i) ==
    /\ sc_pc = "gather"
    /\ task_pc[i] = "pause"
    /\ AllStarted
    /\ IF sem_waiters # <<>>
       THEN /\ task_pc' = [task_pc EXCEPT ![i] = "done",
                                          ![Head(sem_waiters)] = "woken"]
            /\ sem_waiters' = Tail(sem_waiters)
            /\ UNCHANGED sem_value
       ELSE /\ task_pc' = [task_pc EXCEPT ![i] = "done"]
            /\ sem_value' = sem_value + 1
            /\ UNCHANGED sem_waiters
    /\ gathered' = GatherStore(gathered, i, Scraped[sc_companies[i]])
    /\ UNCHANGED <<sc_pc, sc_companies, results_list>>
    /\ UNCHANGED notScrapeVars

\* every task is done: gather returns and scrape_companies returns the list
GatherReturn ==
    /\ sc_pc = "gather"
    /\ \A i \in Tasks : task_pc[i] = "done"
    /\ results_list' = gathered
    /\ sc_pc' = "returned"
    /\ UNCHANGED <<sc_companies, task_pc, sem_value, sem_waiters, gathered>>
    /\ UNCHANGED notScrapeVars

ScrapeNext ==
    \/ \E i \in Tasks : TaskStart(i)
    \/ \E i \in Tasks : TaskResume(i)
    \/ \E i \in Tasks : FetchEnds(i)
    \/ \E i \in Tasks : TaskRaises(i)
    \/ \E i \in Tasks : NextRequest(i)
    \/ \E i \in Tasks : TaskReturn(i)
    \/ GatherReturn

\* a scrape_companies call on its own
InitScrape ==
    ScrapeInit /\ SearchIdle /\ CleanseIdle /\ WorkflowIdle /\ JobsIdle
    /\ QueriesIdle /\ PureIdle /\ CompanyIdle

SpecScrape == InitScrape /\ [][ScrapeNext]_vars

-----------------------------------------------------------------------------
(* Properties of scrape_companies *)

\* C6: under every interleaving of the tasks, the number of companies whose
\* HTTP requests are in flight at the same time never exceeds
\* MAX_CONCURRENT (10).
C6_InFlightAtMostMaxConcurrent == Cardinality(InFlight) <= 10

\* ten requests are in flight while an eleventh company waits for a permit
C6_Witness ==
    /\ Cardinality(InFlight) = 10
    /\ \E i \in Tasks : task_pc[i] = "waiting"

\* the result scrape_company gives for candidate i of the call
ResultIsFor(r, i) ==
    /\ r.company_name = sc_companies[i].company_name
    /\ r.base_url = normalize_to_top_page(sc_companies[i].url)

\* C7: scrape_companies returns exactly one ScrapeResult per input
\* candidate, and the result at position i is the result of candidate i,
\* whatever the order in which the tasks complete.
C7_OneResultPerInputInOrder ==
    /\ \A i \in Tasks :
          task_pc[i] = "done" =>
             gathered[i].company_name = sc_companies[i].company_name
    /\ sc_pc = "returned" =>
         /\ Len(results_list) = Len(sc_companies)
         /\ \A i \in Tasks : ResultIsFor(results_list[i], i)

\* a call with more companies than permits has returned, its last company
\* (which had to wait for a permit) included, with results of every kind
C7_Witness ==
    /\ sc_pc = "returned"
    /\ Len(results_list) > 10
    /\ \E i, j, k \in Tasks :
         /\ results_list[i].error = ""
         /\ results_list[j].error = "top_page_failed"
         /\ results_list[k].error = "company_mismatch"

\* C36: a failure while scraping one candidate stays with that candidate:
\* the call does not raise, and when it has returned every candidate has
\* its record.
C36_FailureStaysWithCandidate ==
    /\ sc_pc \in {"idle", "gather", "returned"}
    /\ \A i \in Tasks : task_pc[i] # "raised"
    /\ sc_pc = "returned" =>
          \A i \in Tasks : ResultIsFor(results_list[i], i)

-----------------------------------------------------------------------------
(* The cleanser: services/llm_cleanser.py.  Names are at most 30           *)
(* characters long and made of the tokens of the name alphabet; the        *)
(* phases of normalize_company_name that look for brackets, " - ",         *)
(* punctuation, particles or a length above 30 find nothing in them.       *)

RECURSIVE SplitOn(_, _)
\* re.split on a separator token: the parts between the separators
SplitOn(name, sep) ==
    IF \A i \in 1..Len(name) : name[i] # sep THEN <<name>>
    ELSE LET k == CHOOSE k \in 1..Len(name) :
                     name[k] = sep /\ \A j \in 1..(k - 1) : name[j] # sep
         IN  <<SubSeq(name, 1, k - 1)>>
                 \o SplitOn(SubSeq(name, k + 1, Len(name)), sep)

\* the first non-empty part with a corporate form; <<>> stands for None
find_corporate_part(parts) ==
    IF \E i \in 1..Len(parts) : HasCorporateType(parts[i])
    THEN parts[CHOOSE i \in 1..Len(parts) :
                  /\ HasCorporateType(parts[i])
                  /\ \A j \in 1..(i - 1) : ~HasCorporateType(parts[j])]
    ELSE <<>>

\* Phase 1: split at "|" and keep the part with a corporate form, else
\* the first part
SplitAtBar(name) ==
    LET parts == SplitOn(name, "|") IN
    IF Len(parts) > 1
    THEN IF find_corporate_part(parts) # <<>>
         THEN find_corporate_part(parts) ELSE parts[1]
    ELSE name

\* Phase 3: re.sub(r'(公式サイト|...)$', '', name), one trailing occurrence
StripOfficialSite(name) ==
    IF name # <<>> /\ name[Len(name)] = "KS"
    THEN SubSeq(name, 1, Len(name) - 1) ELSE name

\* llm_cleanser.normalize_company_name
normalize_company_name(name) ==
    IF name = <<>> THEN <<>>
    ELSE LET stripped == StripOfficialSite(SplitAtBar(name)) IN
         IF stripped = <<"KK">> THEN <<>> ELSE stripped

\* the characters before the first corporate form
before_corporate(name) ==
    SubSeq(name, 1, (CHOOSE i \in 1..Len(name) :
                        name[i] = "KK" /\ \A j \in 1..(i - 1) : name[j] # "KK") - 1)

\* llm_cleanser.is_invalid_company_name
is_invalid_company_name(name) ==
    IF name = <<>> THEN TRUE
    ELSE IF CharLen(name) > 40 THEN TRUE
    ELSE IF CharLen(name) < 3 THEN TRUE
    ELSE IF \E i \in 1..Len(name) : name[i] = "|" THEN TRUE
    ELSE IF \E i \in 1..Len(name) : name[i] = "SEN" THEN TRUE
    ELSE IF \E i \in 1..Len(name) : name[i] = "TEN" THEN TRUE
    ELSE IF HasCorporateType(name) /\ CharLen(before_corporate(name)) > 20
         THEN TRUE
    ELSE IF ~HasCorporateType(name) THEN TRUE
    ELSE FALSE

RECURSIVE RemoveWww(_)
\* str.replace("www.", "")
RemoveWww(s) ==
    IF Len(s) < 4 THEN s
    ELSE IF SubSeq(s, 1, 4) = <<"w", "w", "w", ".">>
    THEN RemoveWww(SubSeq(s, 5, Len(s)))
    ELSE <<Head(s)>> \o RemoveWww(Tail(s))

\* LLMCleanser._extract_domain
cleanser_extract_domain(url) == RemoveWww(extract_domain(url))

\* what the LLM may answer to a batch: every entry, every entry without
\* its domain, the first entry only, or nothing (an empty list, or three
\* failed attempts)
LLMAnswers(batch) ==
    { batch,
      [i \in 1..Len(batch) |-> [batch[i] EXCEPT !.domain = <<>>]],
      Take(batch, 1),
      <<>> }

RECURSIVE cleanse_batch(_)
\* LLMCleanser._cleanse_batch after the response: the post-processing of
\* cleaned_companies
cleanse_batch(cleaned_companies) ==
    IF cleaned_companies = <<>> THEN <<>>
    ELSE LET cc == Head(cleaned_companies)
             company_name == normalize_company_name(cc.company_name)
             rest == cleanse_batch(Tail(cleaned_companies))
         IN  IF cc.company_name = <<>> \/ cc.url = <<>> THEN rest
             ELSE IF is_invalid_company_name(company_name) THEN rest
             ELSE <<CompanyData(company_name, cc.url,
                                IF cc.domain # <<>> THEN cc.domain
                                ELSE cleanser_extract_domain(cc.url))>>
                 \o rest

\* companies[i:i + batch_size] for i in range(0, len(companies), batch_size)
Batches(cs) ==
    [k \in 1..((Len(cs) + BatchSize - 1) \div BatchSize) |->
        SubSeq(cs, (k - 1) * BatchSize + 1,
               IF k * BatchSize < Len(cs) THEN k * BatchSize ELSE Len(cs))]

\* a failed batch whose raw companies are kept
FailedBatchKeepsRaw(batch) == batch

\* cleansed_batch is None: the batch is discarded
FailedBatch(batch) == <<>>

-----------------------------------------------------------------------------
(* The Job: models/job.py *)

NewJob(target) ==
    [status |-> "pending", progress |-> 0, target_count |-> target,
     result_count |-> 0, spreadsheet_url |-> "none"]

\* Job.update_status(status, message, progress)
update_status(j, status, progress) ==
    [j EXCEPT !.status = status,
              !.progress = IF progress >= 0 THEN progress ELSE @]

\* a set_error that leaves the status as it is
set_error_keeps_status(j) == j

\* Job.set_error(error)
set_error(j) == [j EXCEPT !.status = "failed"]

\* Job.set_completed(result_count, spreadsheet_url)
set_completed(j, result_count, spreadsheet_url) ==
    [j EXCEPT !.status = "completed", !.result_count = result_count,
              !.spreadsheet_url = spreadsheet_url, !.progress = 100]

-----------------------------------------------------------------------------
(* The search -> cleanse -> retry loop: services/search_workflow.py and    *)
(* services/search_workflow_sync.py, which differ in the Job updates, in   *)
(* max_retries and in what follows a failed save.                          *)

Max(a, b) == IF a >= b THEN a ELSE b
Min(a, b) == IF a <= b THEN a ELSE b

\* the targets t <= 400 at which the double t * 1.15 is just below
\* the integer 115 * t / 100
RoundedDown == {100, 180, 200, 220, 340, 360, 380, 400}

\* int(target_count * SCRAPING_BUFFER), SCRAPING_BUFFER = 1.15
BufferedTarget(t) ==
    IF t \in RoundedDown THEN (115 * t) \div 100 - 1 ELSE (115 * t) \div 100

\* max_retries of the two controllers
MaxRetries(req) ==
    IF req.mode = "async"
    THEN Max(3, req.target_count \div 10)
    ELSE Min(5, Max(3, req.target_count \div 50))

\* search_target of a round
SearchTarget(round, buffered, accumulated) ==
    IF round > 1 THEN (buffered - accumulated) * 2 ELSE buffered

\* the arguments of the controllers' call of search_companies in a round,
\* next to queries and existing_domains: target_count is search_target,
\* and max_pages_per_query is not passed and so has its default
SearchCall(round, buffered, accumulated) ==
    [target_count |-> SearchTarget(round, buffered, accumulated),
     max_pages_per_query |-> DefaultMaxPages]

\* found_domains bound to the caller's set itself: the call's additions
\* are the caller's
CallerSetShared(existing, found) == found

\* the caller's set after search_companies returned: found_domains is a
\* copy, set(existing_domains), and the additions go to the copy
CallerSetAfterSearch(existing, found) == existing

\* found_domains of search_companies when it returns
FoundBySearch(rs, target, existing) ==
    ProcessResults(rs, <<>>, existing, target).found_domains

\* the domains of the candidates of a round that the cleanser's result
\* does not hold
Rejected(candidates, cleansed) ==
    { candidates[i].domain : i \in { k \in 1..Len(candidates) :
          \A j \in 1..Len(cleansed) : cleansed[j].url # candidates[k].url } }

\* search_companies(queries, target_count, existing_domains) with the
\* default of one page per query; rs is the pages the provider answered,
\* one after the other
search_companies(rs, target, existing) ==
    ProcessResults(rs, <<>>, existing, target).companies

\* the result the provider has for the scarce keyword in a round
FreshResult(round) ==
    Result(SiteUrl(10 + round, <<"/">>), <<"KK", "n" \o ToString(10 + round)>>)

\* a page of results of sites 30, 31, ...
RichPage ==
    [k \in 1..RichResults |->
        Result(SiteUrl(29 + k, <<"/">>), <<"KK", "n" \o ToString(29 + k)>>)]

\* what the provider can answer to the queries of a round
ProviderAnswers(keyword, round) ==
    IF keyword = "scarce" THEN {<<>>, <<FreshResult(round)>>}
    ELSE Pages \cup {<<>>, RichPage}

\* the merge loop's two "continue" tests
MergeSkips(c, ud, un) ==
    \/ c.domain # <<>> /\ c.domain \in ud
    \/ c.company_name # <<>> /\ c.company_name \in un

RECURSIVE Merge(_, _)
\* the merge loop "for c in cleansed"; acc is all_cleansed, used_domains,
\* used_names and new_count
Merge(cleansed, acc) ==
    IF cleansed = <<>> THEN acc
    ELSE LET c == Head(cleansed) IN
         IF MergeSkips(c, acc.used_domains, acc.used_names)
         THEN Merge(Tail(cleansed), acc)
         ELSE Merge(Tail(cleansed),
                    [all_cleansed |->
                        Append(acc.all_cleansed,
                               CompanyData(c.company_name, c.url, c.domain)),
                     used_domains |->
                        IF c.domain # <<>>
                        THEN acc.used_domains \cup {c.domain}
                        ELSE acc.used_domains,
                     used_names |->
                        IF c.company_name # <<>>
                        THEN acc.used_names \cup {c.company_name}
                        ELSE acc.used_names,
                     new_count |-> acc.new_count + 1])

\* the tests after the merge without the test of round_num
LoopBreaksNoLimit(accumulated, buffered, round, max_retries, new_count) ==
    \/ accumulated >= buffered
    \/ new_count = 0
    \/ 10 * accumulated >= 8 * buffered /\ new_count < 3

\* the tests after the merge that end the loop; GIVE_UP_THRESHOLD = 0.8
LoopBreaks(accumulated, buffered, round, max_retries, new_count) ==
    \/ accumulated >= buffered
    \/ round > max_retries
    \/ new_count = 0
    \/ 10 * accumulated >= 8 * buffered /\ new_count < 3

\* where a request goes on after a step of the loop: the next value of
NoError(r) == r.error = ""
HasContact(r) == r.contact_url # <<>> \/ r.phone # ""
NoContact(r) == ~HasContact(r)

\* the control variables
Control(pc, round, all, ud, un, j, resp, rep) ==
    [pc |-> pc, round_num |-> round, all_cleansed |-> all,
     used_domains |-> ud, used_names |-> un, job |-> j, response |-> resp,
     reply |-> rep]

IsAsync == request.mode = "async"

\* the message of the early return: no search result, change the keyword
ZeroResultsMessage ==
    [text |-> "zero_results", result_count |-> 0, contact_count |-> 0,
     spreadsheet_url |-> ""]

\* the message of the last return: the number of companies, the number of
\* them with a contact, and the line of the spreadsheet when there is one
CompletionMessage(result_count, contact_count, spreadsheet_url) ==
    [text |-> "completed", result_count |-> result_count,
     contact_count |-> contact_count, spreadsheet_url |-> spreadsheet_url]

\* the dict of the early return of run_sync_workflow, without its results
ZeroResultsReturn ==
    [result_count |-> 0, search_count |-> 0, scrape_count |-> 0,
     spreadsheet_url |-> "", message |-> ZeroResultsMessage]

\* the dict of the last return of run_sync_workflow, without its results
SyncReturn(successful, search_count, scraped, spreadsheet_url) ==
    [result_count |-> Len(successful), search_count |-> search_count,
     scrape_count |-> Len(scraped), spreadsheet_url |-> spreadsheet_url,
     message |-> CompletionMessage(Len(successful),
                                   Len(SelectSeq(successful, HasContact)),
                                   spreadsheet_url)]

\* _search_with_retry has returned no company: the asynchronous job fails,
\* the synchronous call returns an empty result
NoCompanies(all, ud, un) ==
    IF IsAsync
    THEN Control("notify", round_num, all, ud, un, set_error(job), response,
                 reply)
    ELSE Control("end", round_num, all, ud, un, job, <<<<>>>>,
                 ZeroResultsReturn)

\* the for-loop of _search_with_retry has ended: truncate to the buffered
\* target and go on to scraping
LoopEnds(all, ud, un) ==
    LET buffered == BufferedTarget(request.target_count)
        kept == IF Len(all) > buffered THEN Take(all, buffered) ELSE all
    IN  IF kept = <<>> THEN NoCompanies(kept, ud, un)
        ELSE Control("scrape", round_num, kept, ud, un,
                     IF IsAsync THEN update_status(job, "scraping", 50)
                     ELSE job,
                     response, reply)

\* the rest of a round after cleansing: merge, the break tests and the
\* head of the next round; has_queries tells whether generate_retry_queries
\* still finds queries in the pool, ud is used_domains after the search
RoundEndsWith(cleansed, has_queries, ud) ==
    LET merged == Merge(cleansed,
                        [all_cleansed |-> all_cleansed,
                         used_domains |-> ud,
                         used_names |-> used_names, new_count |-> 0])
    IN  IF \/ LoopBreaks(Len(merged.all_cleansed),
                         BufferedTarget(request.target_count), round_num,
                         MaxRetries(request), merged.new_count)
           \/ ~has_queries
        THEN LoopEnds(merged.all_cleansed, merged.used_domains,
                      merged.used_names)
        ELSE Control("search", round_num + 1, merged.all_cleansed,
                     merged.used_domains, merged.used_names,
                     IF IsAsync
                     THEN update_status(job, "searching",
                                        15 + ((round_num + 1) * 5))
                     ELSE job,
                     response, reply)

\* the same with the controller's used_domains as it is
RoundEnds(cleansed, has_queries) ==
    RoundEndsWith(cleansed, has_queries, used_domains)

\* the control variables take the values of c
GoTo(c) ==
    /\ wf_pc' = c.pc
    /\ round_num' = c.round_num
    /\ all_cleansed' = c.all_cleansed
    /\ used_domains' = c.used_domains
    /\ used_names' = c.used_names
    /\ job' = c.job
    /\ response' = c.response
    /\ reply' = c.reply

-----------------------------------------------------------------------------
(* LLMCleanser.cleanse_companies, batch by batch and attempt by attempt,   *)
(* as a controller calls it: when the call returns, the controller takes   *)
(* the result as cleansed and runs its merge loop.                         *)

\* the companies of a call: what search_companies finds on one page
CleanseInputs ==
    {search_companies(p, n, {}) : p \in Pages \cup {RichPage},
                                  n \in 1..RichResults}
    \ {<<>>}

CleanseInit ==
    /\ cl_pc = "batch"
    /\ cl_companies \in CleanseInputs
    /\ cl_i = 1
    /\ cl_attempt = 0
    /\ cl_all_cleansed = <<>>
    /\ cl_failed_batches = 0
    /\ cl_log = <<>>
    /\ ctl_cleansed = <<>>
    /\ ctl_merged = <<>>

\* the batch the for-loop is at
CurrentBatch == Batches(cl_companies)[cl_i]

\* the result of a batch put before the results of the earlier batches
ExtendInFront(all, cleansed_batch) == cleansed_batch \o all

\* all_cleansed.extend(cleansed_batch)
Extend(all, cleansed_batch) == all \o cleansed_batch

\* _cleanse_batch_with_retry has returned cleansed_batch for the batch:
\* the loop goes on to the next batch, or cleanse_companies returns and
\* its caller merges the result
BatchDone(cleansed_batch, entry) ==
    LET all == Extend(cl_all_cleansed, cleansed_batch) IN
    /\ cl_all_cleansed' = all
    /\ cl_log' = Append(cl_log, entry)
    /\ cl_attempt' = 0
    /\ IF cl_i < Len(Batches(cl_companies))
       THEN /\ cl_i' = cl_i + 1
            /\ UNCHANGED <<cl_pc, ctl_cleansed, ctl_merged>>
       ELSE /\ cl_pc' = "returned"
            /\ ctl_cleansed' = all
            /\ ctl_merged' =
                  Merge(all, [all_cleansed |-> <<>>, used_domains |-> {},
                              used_names |-> {}, new_count |-> 0]).all_cleansed
            /\ UNCHANGED cl_i
    /\ UNCHANGED cl_companies

\* an attempt before the last one raises: the next attempt is made
AttemptRaises ==
    /\ cl_pc = "batch"
    /\ cl_attempt < MAX_RETRIES
    /\ cl_attempt' = cl_attempt + 1
    /\ UNCHANGED <<cl_pc, cl_companies, cl_i, cl_all_cleansed,
                   cl_failed_batches, cl_log, ctl_cleansed, ctl_merged>>
    /\ UNCHANGED notCleanseVars

\* the last attempt raises: _cleanse_batch_with_retry returns None
BatchFails ==
    /\ cl_pc = "batch"
    /\ cl_attempt = MAX_RETRIES
    /\ cl_failed_batches' = cl_failed_batches + 1
    /\ BatchDone(FailedBatch(CurrentBatch), [failed |-> TRUE, answer |-> <<>>])
    /\ UNCHANGED notCleanseVars

\* an attempt gets an answer of the LLM
BatchAnswered ==
    /\ cl_pc = "batch"
    /\ \E a \in LLMAnswers(CurrentBatch) :
          BatchDone(cleanse_batch(a), [failed |-> FALSE, answer |-> a])
    /\ UNCHANGED cl_failed_batches
    /\ UNCHANGED notCleanseVars

CleanseNext ==
    \/ AttemptRaises
    \/ BatchFails
    \/ BatchAnswered

\* a cleanse_companies call on its own
InitCleanse ==
    CleanseInit /\ SearchIdle /\ ScrapeIdle /\ WorkflowIdle /\ JobsIdle
    /\ QueriesIdle /\ PureIdle /\ CompanyIdle

SpecCleanse == InitCleanse /\ [][CleanseNext]_vars

-----------------------------------------------------------------------------
(* Properties of cleanse_companies *)

RECURSIVE KeptOutput(_)
\* the post-processed answers of the batches that did not fail, in order
KeptOutput(log) ==
    IF log = <<>> THEN <<>>
    ELSE (IF Head(log).failed THEN <<>> ELSE cleanse_batch(Head(log).answer))
         \o KeptOutput(Tail(log))

\* the URLs of the candidates of the batches that failed
FailedUrls ==
    UNION {{Batches(cl_companies)[k][i].url :
               i \in 1..Len(Batches(cl_companies)[k])} :
           k \in {b \in 1..Len(cl_log) : cl_log[b].failed}}

\* C12: when every attempt of an LLM batch fails, none of the candidates of
\* that batch is in the output of the cleanser, while the results of the
\* other batches are kept; and the controller takes that output as its
\* cleansed list and merges records of it only, never the raw candidates.
C12_FailedBatchDropped ==
    /\ cl_all_cleansed = KeptOutput(cl_log)
    /\ \A j \in 1..Len(cl_all_cleansed) : cl_all_cleansed[j].url \notin FailedUrls
    /\ cl_failed_batches = Cardinality({b \in 1..Len(cl_log) : cl_log[b].failed})
    /\ cl_pc = "returned" =>
          /\ Len(cl_log) = Len(Batches(cl_companies))
          /\ ctl_cleansed = cl_all_cleansed
          /\ \A i \in 1..Len(ctl_merged) :
                /\ ctl_merged[i].url \notin FailedUrls
                /\ \E j \in 1..Len(ctl_cleansed) :
                      /\ ctl_merged[i].company_name = ctl_cleansed[j].company_name
                      /\ ctl_merged[i].url = ctl_cleansed[j].url
                      /\ ctl_merged[i].domain = ctl_cleansed[j].domain

\* a call of two batches has returned: every attempt of the first batch
\* failed, the second batch was answered, and the controller has merged
\* records of the second batch
C12_Witness ==
    /\ cl_pc = "returned"
    /\ Len(cl_log) = 2
    /\ cl_log[1].failed
    /\ ~cl_log[2].failed
    /\ cl_failed_batches = 1
    /\ ctl_merged # <<>>
    /\ \A i \in 1..Len(ctl_merged) :
          \E k \in 1..Len(Batches(cl_companies)[2]) :
             ctl_merged[i].url = Batches(cl_companies)[2][k].url


\* C37: cleanse_companies processes its batches one at a time in input
\* order, one LLM call at a time, concatenates the results of the batches
\* that survive in batch order, and makes at most MAX_RETRIES + 1 = 3
\* attempts for a batch, going on to the next batch at the first attempt
\* that succeeds.
C37_BatchesInOrderAtMostThreeAttempts ==
    /\ [](cl_pc = "batch" =>
            /\ cl_attempt \in 0..2
            /\ cl_i <= Len(Batches(cl_companies))
            /\ Len(cl_log) = cl_i - 1)
    /\ [](cl_all_cleansed = KeptOutput(cl_log))
    /\ [](\A k \in 1..Len(cl_log) :
            ~cl_log[k].failed =>
               cl_log[k].answer \in LLMAnswers(Batches(cl_companies)[k]))
    /\ [][\/ /\ cl_attempt' = cl_attempt + 1
              /\ cl_i' = cl_i /\ cl_log' = cl_log
              /\ cl_all_cleansed' = cl_all_cleansed
           \/ /\ Len(cl_log') = Len(cl_log) + 1
              /\ SubSeq(cl_log', 1, Len(cl_log)) = cl_log
              /\ cl_attempt' = 0
              /\ cl_log'[Len(cl_log')].failed => cl_attempt = 2]_vars

\* the first batch of a call of two batches was answered, and the second
\* batch is at its third attempt
C37_Witness ==
    /\ cl_pc = "batch"
    /\ cl_i = 2
    /\ cl_attempt = 2
    /\ ~cl_log[1].failed
    /\ Len(cl_all_cleansed) = BatchSize

-----------------------------------------------------------------------------
(* After scraping *)

KeepAll(scraped) == scraped

\* [r for r in scraped_results if not r.error]
Successful(scraped) == SelectSeq(scraped, NoError)

\* a sort by the same key that reverses the records of equal key
SortByContactUnstable(rs) ==
    LET with == SelectSeq(rs, HasContact)
        without == SelectSeq(rs, NoContact)
    IN  [i \in 1..Len(with) |-> with[Len(with) + 1 - i]]
        \o [i \in 1..Len(without) |-> without[Len(without) + 1 - i]]

\* list.sort(key=lambda r: 0 if r.contact_url or r.phone else 1), stable
SortByContact(rs) == SelectSeq(rs, HasContact) \o SelectSeq(rs, NoContact)

NoTruncation(rs, target) == rs

\* if len(successful_results) > target_count: successful_results[:target]
TruncateToTarget(rs, target) == IF Len(rs) > target THEN Take(rs, target) ELSE rs

RECURSIVE PostScrapeClean(_)
\* the post-scrape pass: normalize every name, drop the invalid ones
PostScrapeClean(rs) ==
    IF rs = <<>> THEN <<>>
    ELSE LET r == [Head(rs) EXCEPT
                      !.company_name = normalize_company_name(@)]
         IN  IF is_invalid_company_name(r.company_name)
             THEN PostScrapeClean(Tail(rs))
             ELSE <<r>> \o PostScrapeClean(Tail(rs))

\* the post-scrape pass run before the truncation to the target
TruncateAfterClean(scraped, target) ==
    TruncateToTarget(PostScrapeClean(SortByContact(Successful(scraped))),
                     target)

\* what the controllers make of scraped_results: filter, sort, truncate
\* to the target, and then the post-scrape pass
FinalRecords(scraped, target) ==
    PostScrapeClean(TruncateToTarget(SortByContact(Successful(scraped)),
                                     target))

\* the dicts of companies_to_save
ToSave(rs) ==
    [i \in 1..Len(rs) |->
        [company_name |-> rs[i].company_name, base_url |-> rs[i].base_url,
         contact_url |-> rs[i].contact_url, phone |-> rs[i].phone,
         domain |-> rs[i].domain]]

-----------------------------------------------------------------------------
(* The query pools: QueryPool and generate_retry_queries of serper.py,    *)
(* called by the retry rounds of the requests.  A query of the pool of a  *)
(* keyword is the keyword and a number; generate_retry_queries has no     *)
(* await, so a call and the lines of the controller up to its next await  *)
(* are one step, and the requests interleave between their rounds.        *)

\* the queries _build_pool makes for a keyword
PoolQueries(k) == {<<k, i>> : i \in 1..PoolSize}

\* list(pool) after random.shuffle: the queries in any order
ShuffledPools(k) ==
    {f \in [1..PoolSize -> PoolQueries(k)] :
        \A i, j \in 1..PoolSize : f[i] = f[j] => i = j}

\* the queries of the first round: the ones of the request, which may be
\* queries of the pool, or the ones of generate_diverse_queries
InitialQueries(k) == { {<<k, 0>>}, {<<k, 0>>, <<k, 1>>} }

mark_used_nothing(used, qs) == used

\* QueryPool.mark_used
mark_used(used, qs) == used \cup qs

\* batch_size = max(8, 20 - round_num * 2)
batch_size(round) ==
    IF FirstRetryBatch - (round * 2) > MinRetryBatch
    THEN FirstRetryBatch - (round * 2) ELSE MinRetryBatch

RECURSIVE get_batch(_, _, _)
\* QueryPool.get_batch: the first size queries of the pool, in its order,
\* that are not used
get_batch(pool, used, size) ==
    IF pool = <<>> \/ size <= 0 THEN <<>>
    ELSE IF Head(pool) \in used THEN get_batch(Tail(pool), used, size)
    ELSE <<Head(pool)>> \o get_batch(Tail(pool), used, size - 1)

\* the elements of a sequence
Range(s) == {s[i] : i \in 1..Len(s)}

\* the pools of the keywords, and the requests before their first round
QueriesInit ==
    /\ query_pools = [k \in Keywords |-> NoPool]
    /\ rq_keyword \in [RequestIds -> Keywords]
    /\ rq_round = [r \in RequestIds |-> 0]
    /\ rq_used = [r \in RequestIds |-> {}]
    /\ rq_done = [r \in RequestIds |-> FALSE]
    /\ rq_log = [r \in RequestIds |-> <<>>]

\* round 1 of a request: its initial queries become used_queries
FirstRound(r) ==
    /\ ~rq_done[r]
    /\ rq_round[r] = 0
    /\ \E qs \in InitialQueries(rq_keyword[r]) :
          rq_used' = [rq_used EXCEPT ![r] = qs]
    /\ rq_round' = [rq_round EXCEPT ![r] = 1]
    /\ UNCHANGED <<query_pools, rq_keyword, rq_done, rq_log>>
    /\ UNCHANGED notQueryVars

\* a retry round of a request: generate_retry_queries makes the pool of
\* the keyword if there is none, marks used_queries, and takes a batch;
\* the controller ends its loop on an empty batch and adds the queries to
\* used_queries otherwise
RetryRound(r) ==
    /\ ~rq_done[r]
    /\ rq_round[r] >= 1
    /\ LET k == rq_keyword[r] IN
       \E order \in (IF query_pools[k].made THEN {query_pools[k].pool}
                     ELSE ShuffledPools(k)) :
          LET pool == IF query_pools[k].made THEN query_pools[k]
                      ELSE [made |-> TRUE, pool |-> order, used |-> {}]
              marked == mark_used(pool.used, rq_used[r])
              batch == get_batch(pool.pool, marked,
                                   batch_size(rq_round[r]))
          IN  /\ query_pools' =
                    [query_pools EXCEPT
                        ![k] = [pool EXCEPT
                                   !.used = marked \cup Range(batch)]]
              /\ rq_log' =
                    [rq_log EXCEPT
                        ![r] = Append(@, [round_num |-> rq_round[r],
                                          used_queries |-> rq_used[r],
                                          queries |-> batch,
                                          pool |-> pool.pool])]
              /\ rq_used' = [rq_used EXCEPT ![r] = @ \cup Range(batch)]
              /\ rq_done' = [rq_done EXCEPT
                                ![r] = \/ batch = <<>>
                                       \/ rq_round[r] >= MaxRetryRounds]
    /\ rq_round' = [rq_round EXCEPT ![r] = @ + 1]
    /\ UNCHANGED rq_keyword
    /\ UNCHANGED notQueryVars

QueriesNext ==
    \E r \in RequestIds :
       \/ FirstRound(r)
       \/ RetryRound(r)

\* two requests and the pools they use
InitQueries ==
    QueriesInit /\ SearchIdle /\ ScrapeIdle /\ CleanseIdle /\ WorkflowIdle
    /\ JobsIdle /\ PureIdle /\ CompanyIdle

SpecQueries == InitQueries /\ [][QueriesNext]_vars

\* C19: over the retry rounds of a request, the pool hands out unused
\* queries only: no query twice in a batch or in two batches of the
\* request, and none that is in the used_queries the caller passed, which
\* holds the queries of the first round and of the earlier batches.
C19_OnlyUnusedQueries ==
    \A r \in RequestIds :
       \A i \in 1..Len(rq_log[r]) :
          LET call == rq_log[r][i] IN
          /\ Range(call.queries) \cap call.used_queries = {}
          /\ \A a, b \in 1..Len(call.queries) :
                call.queries[a] = call.queries[b] => a = b
          /\ <<rq_keyword[r], 0>> \in call.used_queries
          /\ \A j \in 1..(i - 1) :
                /\ Range(rq_log[r][j].queries) \subseteq call.used_queries
                /\ Range(rq_log[r][j].queries) \cap Range(call.queries) = {}

\* a request whose first round used a query of the pool has got two
\* batches of retry queries that are not empty
C19_Witness ==
    \E r \in RequestIds :
       /\ Len(rq_log[r]) >= 2
       /\ <<rq_keyword[r], 1>> \in rq_log[r][1].used_queries
       /\ rq_log[r][1].queries # <<>>
       /\ rq_log[r][2].queries # <<>>

\* C20: the requests share no query pool: the retry queries a request
\* gets are the ones of a pool nobody else has used, the first unused
\* queries of the pool with only the request's own used_queries marked.
C20_OwnPoolPerRequest ==
    \A r \in RequestIds :
       \A i \in 1..Len(rq_log[r]) :
          LET call == rq_log[r][i] IN
          call.queries = get_batch(call.pool, call.used_queries,
                                   batch_size(call.round_num))

-----------------------------------------------------------------------------
(* The job registry: services/job_manager.py.  A job of the registry is   *)
(* its id and its created_at; the clock is the environment's.             *)

ExpiredAtTTL(j, now) == now - j.created_at >= JobTTL

\* now - job.created_at > self._job_ttl
Expired(j, now) == now - j.created_at > JobTTL

\* _cleanup_old_jobs at time now: the jobs it deletes
expired_ids(jobs, now) == {j \in jobs : Expired(j, now)}

\* time passes
Tick ==
    /\ jm_now < MaxClock
    /\ jm_now' = jm_now + 1
    /\ jm_last' = [NoCall EXCEPT !.op = "tick"]
    /\ UNCHANGED <<jm_jobs, jm_ids, jm_held>>
    /\ UNCHANGED notJobsVars

\* create_job: the sweep, then Job.create with a new id and the time of
\* the clock, then the job is stored
CreateJob ==
    /\ jm_ids < MaxJobs
    /\ LET removed == expired_ids(jm_jobs, jm_now)
           new == [id |-> jm_ids + 1, created_at |-> jm_now,
                   status |-> "pending"]
       IN  /\ jm_jobs' = (jm_jobs \ removed) \cup {new}
           /\ jm_last' = [op |-> "create", now |-> jm_now,
                          removed |-> removed, created |-> new.id,
                          updated |-> 0]
    /\ jm_ids' = jm_ids + 1
    /\ jm_held' = Append(jm_held, jm_now)
    /\ UNCHANGED jm_now
    /\ UNCHANGED notJobsVars

\* delete_job of a job of the registry
DeleteJob ==
    /\ \E j \in jm_jobs : jm_jobs' = jm_jobs \ {j}
    /\ jm_last' = [NoCall EXCEPT !.op = "delete"]
    /\ UNCHANGED <<jm_now, jm_ids, jm_held>>
    /\ UNCHANGED notJobsVars

\* get_job: self._jobs.get(job_id), the set of what it finds (none or one)
get_job(jobs, job_id) == {j \in jobs : j.id = job_id}

\* the job stored under its id whether the id is a key or not
UpdateJobAlwaysStores(jobs, a_job) ==
    (jobs \ get_job(jobs, a_job.id)) \cup {a_job}

\* update_job: the job replaces the entry of its id when the id is a key
\* of _jobs, and nothing happens otherwise
update_job(jobs, a_job) ==
    IF get_job(jobs, a_job.id) # {}
    THEN (jobs \ get_job(jobs, a_job.id)) \cup {a_job}
    ELSE jobs

\* the status values a workflow gives its Job
JobStatuses == {"pending", "searching"}

\* a workflow calls update_job with the Job it holds, after it has set
\* the Job's status
UpdateJob ==
    /\ \E i \in 1..jm_ids, st \in JobStatuses :
         /\ jm_jobs' = update_job(jm_jobs, [id |-> i,
                                            created_at |-> jm_held[i],
                                            status |-> st])
         /\ jm_last' = [jm_last EXCEPT !.op = "update", !.updated = i]
    /\ UNCHANGED <<jm_now, jm_ids, jm_held>>
    /\ UNCHANGED notJobsVars

JobsNext ==
    \/ Tick
    \/ CreateJob
    \/ DeleteJob
    \/ UpdateJob

\* the registry on its own
InitJobs ==
    JobsIdle /\ SearchIdle /\ ScrapeIdle /\ CleanseIdle /\ WorkflowIdle
    /\ QueriesIdle /\ PureIdle /\ CompanyIdle

SpecJobs == InitJobs /\ [][JobsNext]_vars

\* C18: right after create_job has returned, the registry holds the new
\* job and no job whose age at the sweep was above the TTL, and the sweep
\* has removed no job whose age was at most the TTL.
C18_SweepOnCreate ==
    jm_last.op = "create" =>
        /\ \E j \in jm_jobs : j.id = jm_last.created
        /\ \A j \in jm_jobs : ~(jm_last.now - j.created_at > JobTTL)
        /\ \A j \in jm_last.removed : jm_last.now - j.created_at > JobTTL
        /\ jm_last.removed \cap jm_jobs = {}

\* create_job has returned after a sweep that removed a job and kept a
\* job whose age was the TTL
C18_Witness ==
    /\ jm_last.op = "create"
    /\ jm_last.removed # {}
    /\ \E j \in jm_jobs : jm_last.now - j.created_at = JobTTL
    /\ \E j \in jm_jobs : j.id = jm_last.created

\* C40: update_job never adds an entry: when the id of the job is not a
\* key of the registry (the sweep of another create_job has removed it
\* after the TTL, say), the call leaves the registry as it was, and
\* get_job of an id the registry has lost keeps returning nothing.
C40_UpdateNeverAdds ==
    [][/\ \A i \in 1..jm_ids :
             get_job(jm_jobs, i) = {} => get_job(jm_jobs', i) = {}
       /\ jm_last'.op = "update"
            => /\ {j.id : j \in jm_jobs'} = {j.id : j \in jm_jobs}
               /\ get_job(jm_jobs, jm_last'.updated) = {}
                    => jm_jobs' = jm_jobs
      ]_vars

\* update_job has returned for a job that the sweep of the create_job
\* before it had removed; the registry holds other jobs and not this one
C40_Witness ==
    /\ jm_last.op = "update"
    /\ \E j \in jm_last.removed : j.id = jm_last.updated
    /\ jm_last.created # 0
    /\ get_job(jm_jobs, jm_last.updated) = {}
    /\ jm_jobs # {}

-----------------------------------------------------------------------------
(* One request: SearchWorkflow.execute (mode "async", with a Job) or       *)
(* run_sync_workflow (mode "sync").  Every action is the code from one     *)
(* await to the next.                                                      *)

\* the requests: a keyword the provider has varied results for, with the
\* smaller targets, and a keyword it has hardly any results for, with the
\* larger ones as well
Requests ==
    [mode : {"async", "sync"}, llm : BOOLEAN, keyword : {"varied"},
     target_count : (0..MaxTarget) \cup {BufferTarget}]
    \cup
    [mode : {"async", "sync"}, llm : BOOLEAN, keyword : {"scarce"},
     target_count : (0..MaxTarget) \cup {RetryTarget, LargeTarget}]

WorkflowInit ==
    /\ wf_pc = "start"
    /\ request \in Requests
    /\ job = IF request.mode = "async" THEN NewJob(request.target_count)
             ELSE NoJob
    /\ round_num = 0
    /\ all_cleansed = <<>>
    /\ used_domains = {}
    /\ used_names = {}
    /\ round_companies = <<>>
    /\ scraped_results = <<>>
    /\ successful_results = <<>>
    /\ sink = <<>>
    /\ response = <<>>
    /\ reply = NoReply
    /\ existing_failed = FALSE
    /\ save_outcome = "none"
    /\ rejected_domains = {}

\* the controller starts and asks for the existing domains
Start ==
    /\ wf_pc = "start"
    /\ wf_pc' = "existing"
    /\ job' = IF IsAsync THEN update_status(job, "searching", 5) ELSE job
    /\ UNCHANGED <<request, round_num, all_cleansed, used_domains, used_names,
                   round_companies, scraped_results, successful_results,
                   sink, response, reply, existing_failed, save_outcome,
                   rejected_domains>>
    /\ UNCHANGED notWorkflowVars

\* get_existing_domains returns: _search_with_retry begins its first round
ExistingDomainsAnswered ==
    /\ wf_pc = "existing"
    /\ \E outcome \in ExistingOutcomes :
          /\ used_domains' = get_existing_domains(outcome)
          /\ existing_failed' = outcome.failed
    /\ used_names' = {}
    /\ all_cleansed' = <<>>
    /\ round_num' = 1
    /\ job' = IF IsAsync THEN update_status(job, "searching", 15) ELSE job
    /\ wf_pc' = "search"
    /\ UNCHANGED <<request, round_companies, scraped_results,
                   successful_results, sink, response, reply, save_outcome,
                   rejected_domains>>
    /\ UNCHANGED notWorkflowVars

\* search_companies returns the companies of the round
SearchAnswered ==
    /\ wf_pc = "search"
    /\ \E rs \in ProviderAnswers(request.keyword, round_num),
          has_queries \in BOOLEAN :
         LET call == SearchCall(round_num,
                                BufferedTarget(request.target_count),
                                Len(all_cleansed))
             cs == search_companies(rs, call.target_count, used_domains)
             ud == CallerSetAfterSearch(used_domains,
                       FoundBySearch(rs, call.target_count, used_domains))
         IN  IF cs = <<>>
             THEN /\ GoTo(IF round_num > 1
                          THEN LoopEnds(all_cleansed, ud, used_names)
                          ELSE NoCompanies(<<>>, ud, used_names))
                  /\ round_companies' = cs
             ELSE IF request.llm
             THEN /\ round_companies' = cs
                  /\ wf_pc' = "cleanse"
                  /\ job' = IF IsAsync /\ round_num = 1
                            THEN update_status(job, "searching", 25) ELSE job
                  /\ used_domains' = ud
                  /\ UNCHANGED <<round_num, all_cleansed, used_names,
                                 response, reply>>
             ELSE /\ GoTo(RoundEndsWith(cs, has_queries, ud))
                  /\ round_companies' = cs
    /\ UNCHANGED <<request, scraped_results, successful_results, sink,
                   existing_failed, save_outcome,
                   rejected_domains>>
    /\ UNCHANGED notWorkflowVars

\* cleanse_companies returns (the companies of a round are fewer than
\* the 50 of a batch: they are one batch; cleanse_companies catches every
\* exception of a batch, so the except branch of the controller is not
\* taken)
CleanseAnswered ==
    /\ wf_pc = "cleanse"
    /\ \E answer \in LLMAnswers(round_companies), has_queries \in BOOLEAN :
         /\ GoTo(RoundEnds(cleanse_batch(answer), has_queries))
         /\ rejected_domains' =
                rejected_domains
                \cup Rejected(round_companies, cleanse_batch(answer))
    /\ round_companies' = <<>>
    /\ UNCHANGED <<request, scraped_results, successful_results, sink,
                   existing_failed, save_outcome>>
    /\ UNCHANGED notWorkflowVars

\* scrape_companies returns: filter, sort, truncate, post-scrape pass, and
\* the records are handed to the sink
ScrapeAnswered ==
    /\ wf_pc = "scrape"
    /\ LET scraped == [i \in 1..Len(all_cleansed) |->
                          scrape_company(all_cleansed[i].company_name,
                                         all_cleansed[i].url)]
           cleaned == FinalRecords(scraped, request.target_count)
       IN  /\ scraped_results' = scraped
           /\ successful_results' = cleaned
           /\ IF IsAsync
              THEN /\ job' = update_status(job, "saving", 80)
                   /\ sink' = Append(sink, ToSave(cleaned))
                   /\ wf_pc' = "save"
                   /\ UNCHANGED <<response, reply>>
              ELSE IF cleaned # <<>>
              THEN /\ sink' = Append(sink, ToSave(cleaned))
                   /\ wf_pc' = "save"
                   /\ UNCHANGED <<job, response, reply>>
              ELSE /\ response' = Append(response, ToSave(cleaned))
                   /\ reply' = SyncReturn(cleaned, Len(all_cleansed),
                                          scraped, "")
                   /\ wf_pc' = "end"
                   /\ UNCHANGED <<job, sink>>
    /\ UNCHANGED <<request, round_num, all_cleansed, used_domains, used_names,
                   round_companies, existing_failed, save_outcome,
                   rejected_domains>>
    /\ UNCHANGED notWorkflowVars

\* what save_results can end with: a response whose spreadsheet_url is a
\* string (or missing), or is a JSON value that is no string; or an error
SaveOutcomes == {"text", "not_text", "raise"}

SavedUrlOfRaise(outcome) == outcome

\* run_sync_workflow's spreadsheet_url after its try around save_results:
\* the one of the response, or the initial "" when the call raised
SavedUrl(outcome) == IF outcome = "raise" THEN "" ELSE outcome

\* save_results returns or raises
SaveAnswered ==
    /\ wf_pc = "save"
    /\ \E outcome \in SaveOutcomes :
         /\ save_outcome' = outcome
         /\ IF IsAsync
            THEN /\ job' = IF outcome = "raise" THEN set_error(job)
                           ELSE set_completed(job, Len(successful_results),
                                              outcome)
                 /\ wf_pc' = "notify"
                 /\ UNCHANGED <<response, reply>>
            ELSE /\ response' = Append(response, ToSave(successful_results))
                 /\ reply' = SyncReturn(successful_results,
                                        Len(all_cleansed), scraped_results,
                                        SavedUrl(outcome))
                 /\ wf_pc' = "end"
                 /\ UNCHANGED job
    /\ UNCHANGED <<request, round_num, all_cleansed, used_domains, used_names,
                   round_companies, scraped_results, successful_results, sink,
                   existing_failed, rejected_domains>>
    /\ UNCHANGED notWorkflowVars

\* the notification of the end of the job: notify_error never raises;
\* notify_completion joins its message lines before it sends them, which
\* raises when spreadsheet_url is no string, inside the try of execute
Notified ==
    /\ wf_pc = "notify"
    /\ job' = IF job.status = "completed" /\ job.spreadsheet_url = "not_text"
              THEN set_error(job) ELSE job
    /\ wf_pc' = "end"
    /\ UNCHANGED <<request, round_num, all_cleansed, used_domains, used_names,
                   round_companies, scraped_results, successful_results,
                   sink, response, reply, existing_failed, save_outcome,
                   rejected_domains>>
    /\ UNCHANGED notWorkflowVars

Next ==
    \/ Start
    \/ ExistingDomainsAnswered
    \/ SearchAnswered
    \/ CleanseAnswered
    \/ ScrapeAnswered
    \/ SaveAnswered
    \/ Notified

Init ==
    WorkflowInit /\ SearchIdle /\ ScrapeIdle /\ CleanseIdle /\ JobsIdle
    /\ QueriesIdle /\ PureIdle /\ CompanyIdle

Spec == Init /\ [][Next]_vars

\* the call a request awaits at p returns or raises: the request does not
\* stay at p forever.  This is WF_vars of the action that answers at p,
\* with ENABLED written out: the action is enabled exactly at p, and a step
\* that leaves a state at p is a step of that action
Returns(p) == []<>(wf_pc # p) \/ []<><<wf_pc = p>>_vars

\* execute runs as an asyncio task that the event loop schedules, and
\* every external call returns or raises
FairSpec ==
    /\ Spec
    /\ WF_vars(Start)
    /\ WF_vars(ExistingDomainsAnswered)
    /\ Returns("search")
    /\ Returns("cleanse")
    /\ Returns("scrape")
    /\ WF_vars(SaveAnswered)
    /\ WF_vars(Notified)

-----------------------------------------------------------------------------
(* Properties of a request *)

\* the record lists that left the program: the ones handed to the sink and
\* the ones returned to the caller
Outputs ==
    {sink[i] : i \in 1..Len(sink)} \cup {response[i] : i \in 1..Len(response)}

\* C1: whatever search, cleansing and scraping answered, the records handed
\* to the sink and the records returned to the caller are at most
\* target_count, in the synchronous and in the asynchronous run, and the
\* Job never counts more results than that.
C1_OutputAtMostTarget ==
    /\ \A out \in Outputs : Len(out) <= request.target_count
    /\ job.result_count <= request.target_count

\* a synchronous run has ended in which more companies than the target were
\* scraped without an error, and exactly target_count records went to the
\* sink and to the caller
C1_Witness ==
    /\ wf_pc = "end"
    /\ request.mode = "sync"
    /\ request.target_count = BufferTarget
    /\ Len(SelectSeq(scraped_results, NoError)) > request.target_count
    /\ Len(sink) = 1 /\ Len(sink[1]) = request.target_count
    /\ Len(response) = 1 /\ Len(response[1]) = request.target_count

\* the ScrapeResults of the request that a record of the output stands for
ScrapedAs(rec) ==
    {i \in 1..Len(scraped_results) :
        /\ scraped_results[i].base_url = rec.base_url
        /\ scraped_results[i].domain = rec.domain}

\* C2: every record of the final output has an empty error and a name that
\* is_invalid_company_name accepts; a record whose scrape ended in
\* top_page_failed or company_mismatch reaches neither the sink nor the
\* caller.
C2_OutputIsCleanAndValid ==
    /\ \A i \in 1..Len(successful_results) :
          /\ successful_results[i].error = ""
          /\ ~is_invalid_company_name(successful_results[i].company_name)
    /\ \A out \in Outputs :
          /\ wf_pc \in {"save", "notify", "end"} => out = ToSave(successful_results)
          /\ \A k \in 1..Len(out) :
                /\ ~is_invalid_company_name(out[k].company_name)
                /\ ScrapedAs(out[k]) # {}
                /\ \A i \in ScrapedAs(out[k]) : scraped_results[i].error = ""

\* a run has ended whose scrape had a top_page_failed, a company_mismatch
\* and an error-free record with an invalid name, and whose output is not
\* empty
C2_Witness ==
    /\ wf_pc = "end"
    /\ \E i \in 1..Len(scraped_results) :
          scraped_results[i].error = "top_page_failed"
    /\ \E i \in 1..Len(scraped_results) :
          scraped_results[i].error = "company_mismatch"
    /\ \E i \in 1..Len(scraped_results) :
          /\ scraped_results[i].error = ""
          /\ is_invalid_company_name(
                 normalize_company_name(scraped_results[i].company_name))
    /\ Outputs # {}
    /\ \A out \in Outputs : out # <<>>

\* C3: after every round of the merge step, two different accepted records
\* of a request have different domains and different normalized company
\* names, with and without the LLM cleanser.
C3_AcceptedPairwiseDistinct ==
    \A i, k \in 1..Len(all_cleansed) :
        i # k =>
            /\ all_cleansed[i].domain # all_cleansed[k].domain
            /\ normalize_company_name(all_cleansed[i].company_name)
                 # normalize_company_name(all_cleansed[k].company_name)

\* the place of a status in the order of the lifecycle
StatusRank(status) ==
    CASE status = "pending" -> 1
      [] status = "searching" -> 2
      [] status = "scraping" -> 3
      [] status = "saving" -> 4
      [] status = "completed" -> 5
      [] OTHER -> 0

Terminal(status) == status \in {"completed", "failed"}

\* C8: in an execution of SearchWorkflow.execute the status of the job only
\* moves forward in pending < searching < scraping < saving < completed, or
\* to failed, and a status of completed or failed never changes again.
C8_StatusOnlyForward ==
    [][IsAsync =>
         /\ \/ StatusRank(job'.status) >= StatusRank(job.status)
            \/ job'.status = "failed"
         /\ Terminal(job.status) => job'.status = job.status]_vars

\* C9: in an execution of SearchWorkflow.execute the progress of the job
\* never decreases from one update to the next before the job is completed
\* or failed.
C9_ProgressNeverDecreases ==
    [][IsAsync /\ ~Terminal(job.status) => job'.progress >= job.progress]_vars

\* C10: in every state of a job, 0 <= progress <= 100.
C10_ProgressWithinPercent ==
    IsAsync => 0 <= job.progress /\ job.progress <= 100

\* C11: every job of SearchWorkflow.execute at last has the status completed
\* or failed, whatever the search provider, the LLM, the scraper, the sink
\* and the notifier answer, provided each of their calls returns or raises.
C11_JobReachesTerminal == IsAsync ~> Terminal(job.status)

\* a job has failed after its records were handed to the sink and
\* save_results raised
C11_Witness ==
    /\ IsAsync
    /\ wf_pc = "end"
    /\ sink # <<>>
    /\ job.status = "failed"
    /\ job.spreadsheet_url = "none"


-----------------------------------------------------------------------------
(* Failures of the collaborator and runs without a result *)

\* C13: when save_results fails in run_sync_workflow, the call still
\* returns, with spreadsheet_url = "", and with the results and the
\* result_count it returns when save_results succeeds: the records it
\* offered to the sink.
C13_SaveFailureStillReturns ==
    (~IsAsync /\ save_outcome = "raise") =>
        /\ wf_pc = "end"
        /\ reply.spreadsheet_url = ""
        /\ Len(response) = 1
        /\ response[1] = ToSave(successful_results)
        /\ response[1] = sink[1]
        /\ \A ok \in SaveOutcomes \ {"raise"} :
              LET r == SyncReturn(successful_results, Len(all_cleansed),
                                  scraped_results, SavedUrl(ok))
              IN  /\ reply.result_count = r.result_count
                  /\ reply.search_count = r.search_count
                  /\ reply.scrape_count = r.scrape_count

\* a synchronous run has returned two records after save_results raised
C13_Witness ==
    /\ ~IsAsync
    /\ save_outcome = "raise"
    /\ wf_pc = "end"
    /\ reply.result_count = 2
    /\ Len(response[1]) = 2

\* C14: when save_results fails in SearchWorkflow.execute, the job does not
\* become failed: it is completed with an empty spreadsheet_url and the
\* number of surviving records as its result_count.
C14_SaveFailureDegraded ==
    (IsAsync /\ save_outcome = "raise") =>
        /\ job.status = "completed"
        /\ job.spreadsheet_url = ""
        /\ job.result_count = Len(successful_results)

\* C15: when get_existing_domains fails, the run goes on: the round loop
\* is entered with an empty set of existing domains (every used domain is
\* the domain of a company the run itself has merged), and the job is not
\* failed at that point, in both workflows.
C15_ExistingFailureProceeds ==
    existing_failed =>
        /\ wf_pc \notin {"start", "existing"}
        /\ round_num >= 1
        /\ (round_num = 1 /\ wf_pc \in {"search", "cleanse"}) =>
              /\ used_domains = {}
              /\ job.status # "failed"
        /\ wf_pc \in {"search", "cleanse"} =>
              \A d \in used_domains :
                 \E i \in 1..Len(all_cleansed) : all_cleansed[i].domain = d

\* get_existing_domains failed, and the run went through its rounds to a
\* result: a synchronous return with a record, or a completed job
C15_Witness ==
    /\ existing_failed
    /\ wf_pc = "end"
    /\ IF IsAsync THEN job.status = "completed" ELSE reply.result_count > 0

\* C16: whenever run_sync_workflow returns result_count = 0, its message
\* is the explanation of a run without results (change the keyword).
C16_ZeroCountHasZeroMessage ==
    (~IsAsync /\ wf_pc = "end" /\ reply.result_count = 0) =>
        reply.message = ZeroResultsMessage

\* C17: an asynchronous run whose search and cleansing gave no candidate
\* ends as a success with result_count = 0: the job is not failed.
C17_ZeroCandidatesIsSuccess ==
    (IsAsync /\ wf_pc \in {"notify", "end"} /\ save_outcome = "none") =>
        /\ job.status # "failed"
        /\ job.result_count = 0


-----------------------------------------------------------------------------
(* Properties of the records *)

\* C21: every ScrapeResult of scrape_company has the error "" (ok),
\* "top_page_failed" or "company_mismatch", and a result with an error has
\* neither a contact_url nor a phone.
C21_ErrorKindsAndEmptyContact ==
    \A i \in 1..Len(scraped_results) :
       LET r == scraped_results[i] IN
       /\ r.error \in {"", "top_page_failed", "company_mismatch"}
       /\ r.error # "" => (r.contact_url = <<>> /\ r.phone = "")

\* scrape_companies has returned a result of a page that does not name
\* the company although it has contact data, and a result with a contact
C21_Witness ==
    /\ \E i \in 1..Len(scraped_results) :
          /\ scraped_results[i].error = "company_mismatch"
          /\ \/ SiteOf(scraped_results[i].domain).contact
             \/ SiteOf(scraped_results[i].domain).phone
    /\ \E i \in 1..Len(scraped_results) :
          scraped_results[i].error = "" /\ HasContact(scraped_results[i])


\* a host name without a leading "www."
StripLeadingWww(s) ==
    IF Len(s) >= 4 /\ SubSeq(s, 1, 4) = <<"w", "w", "w", ".">>
    THEN SubSeq(s, 5, Len(s)) ELSE s

\* the authority component of a URL, lower-cased, without a leading "www."
NormalizedAuthority(url) ==
    StripLeadingWww(Lower(
        IF Len(url) >= 2 /\ url[1] = "https:" /\ url[2] = "//"
        THEN Authority(SubSeq(url, 3, Len(url))) ELSE <<>>))

\* C23: the domain of every candidate of search_companies is the authority
\* component of its url, lower-cased and without a leading "www.": URLs
\* whose hosts differ in letter case or a "www." prefix only give one
\* candidate, and none when the domain is one of existing_domains.
C23_DomainIsNormalizedAuthority ==
    /\ \A i \in 1..Len(companies) :
          /\ companies[i].domain = NormalizedAuthority(companies[i].url)
          /\ NormalizedAuthority(companies[i].url) \notin existing_domains
    /\ \A i, j \in 1..Len(companies) :
          NormalizedAuthority(companies[i].url)
             = NormalizedAuthority(companies[j].url) => i = j


\* C22: the record the scraper returns for a candidate has the domain the
\* candidate was merged with (the one held in used_domains), so the
\* records of two candidates never have the same domain.
C22_RecordDomainIsCandidateDomain ==
    /\ \A i \in 1..Len(scraped_results) :
          scraped_results[i].domain = all_cleansed[i].domain
    /\ \A i, j \in 1..Len(scraped_results) :
          scraped_results[i].domain = scraped_results[j].domain => i = j


\* the top-page URLs of a list of records
BaseUrls(rs) == [i \in 1..Len(rs) |-> rs[i].base_url]

C38_OutputWithinFirstTarget ==
    \A out \in Outputs \cup {successful_results} :
        IsSubsequence(BaseUrls(out),
                      BaseUrls(Take(SortByContact(Successful(scraped_results)),
                                    request.target_count)))

\* a run has ended in which more companies than the target were scraped
\* without an error, the post-scrape pass dropped one of the first
\* target_count of them, and fewer than target_count went to the sink
C38_Witness ==
    /\ wf_pc = "end"
    /\ Len(Successful(scraped_results)) > request.target_count
    /\ Len(sink) = 1
    /\ Len(sink[1]) < request.target_count
    /\ Len(sink[1]) > 0


\* C39: search_companies leaves the caller's existing_domains as it was,
\* and the controller's domain set grows only in the merge, by the domains
\* of the records it merges: the domain of a candidate that the search
\* returned and the cleanser dropped is not put into the set, and a later
\* round can return it again.
C39_SetGrowsOnlyInMerge ==
    [][/\ (wf_pc = "search" /\ wf_pc' = "cleanse")
            => used_domains' = used_domains
       /\ (wf_pc = "search" /\ ~request.llm)
            => (used_domains' \ used_domains)
               \subseteq { round_companies'[i].domain :
                              i \in 1..Len(round_companies') }
       /\ wf_pc = "cleanse"
            => \E answer \in LLMAnswers(round_companies) :
                  LET cleansed == cleanse_batch(answer) IN
                  (used_domains' \ used_domains)
                  \subseteq { cleansed[i].domain : i \in 1..Len(cleansed) }
       /\ wf_pc \notin {"search", "cleanse", "existing"}
            => used_domains' = used_domains
       /\ (rejected_domains' \ rejected_domains) \cap used_domains' = {}
      ]_vars

\* a later round's search has returned a candidate whose domain an earlier
\* round returned and the cleanser dropped; the domain is not in the set
C39_Witness ==
    /\ wf_pc = "cleanse"
    /\ round_num > 1
    /\ \E i \in 1..Len(round_companies) :
          /\ round_companies[i].domain \in rejected_domains
          /\ round_companies[i].domain \notin used_domains


-----------------------------------------------------------------------------
(* normalize_company_name on its own: the cleanser normalizes a name, and  *)
(* the post-scrape pass normalizes the result again.                       *)

\* the tokens of the names
NameTokens == {"KK", "A", "KS", "|"}

\* the names: the token sequences up to MaxNameLen
Names == UNION {[1..n -> NameTokens] : n \in 0..MaxNameLen}

InitNormalize ==
    /\ fn_call \in {[f |-> "normalize_company_name", arg |-> name] :
                       name \in Names}
    /\ fn_result = <<>>
    /\ SearchIdle /\ ScrapeIdle /\ CleanseIdle /\ WorkflowIdle /\ JobsIdle
    /\ QueriesIdle /\ CompanyIdle

\* LLMCleanser._cleanse_batch normalizes the name of the LLM
NormalizeInCleanser ==
    /\ fn_call.f = "normalize_company_name"
    /\ fn_result = <<>>
    /\ fn_result' = <<normalize_company_name(fn_call.arg)>>
    /\ UNCHANGED fn_call
    /\ UNCHANGED notPureVars

\* the post-scrape pass normalizes the name of the record
NormalizeAfterScrape ==
    /\ fn_call.f = "normalize_company_name"
    /\ Len(fn_result) = 1
    /\ fn_result' = Append(fn_result, normalize_company_name(fn_result[1]))
    /\ UNCHANGED fn_call
    /\ UNCHANGED notPureVars

NormalizeNext ==
    \/ NormalizeInCleanser
    \/ NormalizeAfterScrape

SpecNormalize == InitNormalize /\ [][NormalizeNext]_vars

\* C25: normalize_company_name is idempotent: the post-scrape pass leaves
\* a name the cleanser's normalizer has produced as it is.
C25_NormalizeIdempotent ==
    (fn_call.f = "normalize_company_name" /\ Len(fn_result) = 2) =>
        fn_result[2] = fn_result[1]

-----------------------------------------------------------------------------
(* Properties of the round loop *)

\* the request is in a round of _search_with_retry
InRound == wf_pc \in {"search", "cleanse"}

\* C26: the round loop always terminates, after at most max_retries + 1
\* search rounds, where max_retries is target_count div 50 clamped to 3..5
\* in the synchronous controller (at most 6 rounds) and
\* max(3, target_count div 10) in the asynchronous one.
C26_RoundLoopTerminates ==
    /\ [](InRound =>
            /\ round_num >= 1
            /\ round_num <= MaxRetries(request) + 1
            /\ request.mode = "sync" =>
                  /\ MaxRetries(request) =
                        (IF request.target_count \div 50 < 3 THEN 3
                         ELSE IF request.target_count \div 50 > 5 THEN 5
                         ELSE request.target_count \div 50)
                  /\ round_num <= 6
            /\ request.mode = "async" =>
                  MaxRetries(request) =
                     (IF request.target_count \div 10 > 3
                      THEN request.target_count \div 10 ELSE 3))
    /\ (InRound ~> ~InRound)

\* a synchronous request is in the sixth search round, the last one its
\* five retries allow
C26_Witness ==
    /\ wf_pc = "search"
    /\ request.mode = "sync"
    /\ request.target_count = LargeTarget
    /\ round_num = 6
    /\ Len(all_cleansed) = 5

\* all_cleansed directly after the merge loop of the round has run over
\* the companies cleansed
MergedRound(cleansed) ==
    Merge(cleansed,
          [all_cleansed |-> all_cleansed, used_domains |-> used_domains,
           used_names |-> used_names, new_count |-> 0]).all_cleansed

\* C28: at every point of the round loop the accumulated list holds at
\* most buffered_target companies, also directly after the merge of a
\* retry round, whose search target is twice the shortage: whatever the
\* search of the round and the cleanser answer.
C28_AccumulatedAtMostBuffered ==
    LET buffered == BufferedTarget(request.target_count) IN
    /\ InRound => Len(all_cleansed) <= buffered
    /\ wf_pc = "cleanse" =>
          \A answer \in LLMAnswers(round_companies) :
             Len(MergedRound(cleanse_batch(answer))) <= buffered
    /\ (wf_pc = "search" /\ ~request.llm) =>
          \A rs \in ProviderAnswers(request.keyword, round_num) :
             Len(MergedRound(search_companies(
                     rs,
                     SearchCall(round_num, buffered,
                                Len(all_cleansed)).target_count,
                     used_domains))) <= buffered

\* the four stop conditions of a round, in their order, on the list
\* accumulated after the round and the number of companies the round
\* added; rounds are counted from 0, round_num from 1
StopCondition(accumulated, added) ==
    LET buffered == BufferedTarget(request.target_count) IN
    \/ accumulated >= buffered
    \/ round_num - 1 = MaxRetries(request)
    \/ added = 0
    \/ 10 * accumulated >= 8 * buffered /\ added < 3

\* C29: after the merge of a round the controller stops exactly when one
\* of the four conditions holds (accumulated >= buffered_target; round =
\* max_retries; no new addition; accumulated >= 0.8 * buffered_target and
\* fewer than 3 new additions), and starts another round when none holds:
\* the loop ends in no other way.
C29_StopsExactlyOnTheFourConditions ==
    [][LET added == Len(all_cleansed') - Len(all_cleansed) IN
       /\ (InRound /\ ~InRound') =>
             StopCondition(Len(all_cleansed'), added)
       /\ (InRound /\ round_num' = round_num + 1) =>
             ~StopCondition(Len(all_cleansed'), added)]_vars

\* C30: the controller asks search_companies for up to 2 pages per query
\* in the first round (round 0) and for 1 page per query in every retry
\* round.
C30_PagesPerQueryByRound ==
    wf_pc = "search" =>
        SearchCall(round_num, BufferedTarget(request.target_count),
                   Len(all_cleansed)).max_pages_per_query
          = (IF round_num = 1 THEN 2 ELSE 1)

-----------------------------------------------------------------------------
(* The buffered target of the two controllers as a function of             *)
(* target_count.                                                           *)

InitBuffer ==
    /\ fn_call \in {[f |-> "buffered_target", arg |-> <<mode, t>>] :
                        mode \in {"sync", "async"}, t \in 0..MaxBufferInput}
    /\ fn_result = <<>>
    /\ SearchIdle /\ ScrapeIdle /\ CleanseIdle /\ WorkflowIdle /\ JobsIdle
    /\ QueriesIdle /\ CompanyIdle

\* _search_with_retry of search_workflow_sync.py computes buffered_target
BufferInSync ==
    /\ fn_call.f = "buffered_target"
    /\ fn_call.arg[1] = "sync"
    /\ fn_result = <<>>
    /\ fn_result' = <<BufferedTarget(fn_call.arg[2])>>
    /\ UNCHANGED fn_call
    /\ UNCHANGED notPureVars

\* SearchWorkflow._search_with_retry computes its target_count
BufferInAsync ==
    /\ fn_call.f = "buffered_target"
    /\ fn_call.arg[1] = "async"
    /\ fn_result = <<>>
    /\ fn_result' = <<BufferedTarget(fn_call.arg[2])>>
    /\ UNCHANGED fn_call
    /\ UNCHANGED notPureVars

BufferNext == BufferInSync \/ BufferInAsync

SpecBuffer == InitBuffer /\ [][BufferNext]_vars

\* C27: for every target_count >= 0 the buffered target is the ceiling of
\* target_count * 1.15, the smallest b with 100 * b >= 115 * target_count.
C27_BufferedIsCeiling ==
    (fn_call.f = "buffered_target" /\ fn_result # <<>>) =>
        LET t == fn_call.arg[2]
            b == fn_result[1]
        IN  /\ 100 * b >= 115 * t
            /\ 100 * (b - 1) < 115 * t

=============================================================================
